---- MODULE Spec2Model ----
(***************************************************************************)
(* Verification model of the prediction-market pipeline:                   *)
(*   - PredictionMarketScraper._parse_price          (src/tools.py)        *)
(*   - PredictionMarketFlow.collect_data / analyze_products /              *)
(*     generate_csv / run_flow                        (src/main.py)        *)
(*   - PredictionMarketFlow._process_csv_output, _extract_products_manually*)
(*     and _create_fallback_csv                       (src/main.py)        *)
(*                                                                         *)
(* Numbers are fixed point.  Every number of the payload is an integer in  *)
(* units of 1e-4; reported prices (after round(x, 4)) are integers in      *)
(* units of 1e-4 and reported confidences (after round(x, 2)) are integers *)
(* in units of 1e-2.                                                       *)
(* Text is a sequence of one-character strings (_parse_price) or a         *)
(* sequence of lexical tokens (the analysis payload).                      *)
(***************************************************************************)
EXTENDS Integers, Sequences, FiniteSets, TLC

VARIABLES
    pc,               \* position of the operation under analysis
    price_text,       \* argument of _parse_price
    price,            \* outcome of _parse_price
    unified_products, \* argument of _process_csv_output
    files,            \* file system: path -> content, NoFile when absent
    written,          \* paths written since the operation started
    csv_path,         \* outcome of _process_csv_output / run_flow
    stage,            \* results of the three flow stages
    invoked           \* collaborators invoked so far by the flow

vars == <<pc, price_text, price, unified_products, files, written, csv_path,
          stage, invoked>>

None == [kind |-> "none"]

(***************************************************************************)
(* Bounds                                                                  *)
(***************************************************************************)
MaxPriceLen == 4
MaxClusters == 3
MaxMembers == 3

(***************************************************************************)
(* Generic helpers                                                         *)
(***************************************************************************)
RECURSIVE Pow10(_)
Pow10(k) == IF k = 0 THEN 1 ELSE 10 * Pow10(k - 1)

RECURSIVE SeqsUpTo(_, _)
SeqsUpTo(S, n) ==
    IF n = 0 THEN {<<>>}
    ELSE LET P == SeqsUpTo(S, n - 1)
         IN  P \cup {Append(p, x) : p \in {q \in P : Len(q) = n - 1}, x \in S}

\* decimal numbers num / 10^k
Dec(num, k) == [num |-> num, k |-> k]
DecLt(a, b) == a.num * Pow10(b.k) < b.num * Pow10(a.k)
DecEq(a, b) == a.num * Pow10(b.k) = b.num * Pow10(a.k)
DecLe(a, b) == ~DecLt(b, a)

(***************************************************************************)
(* tools.py : PredictionMarketScraper._parse_price                         *)
(***************************************************************************)
\* characters: the cent marker of the source is the two characters
\* U+00C2 U+00A2; they are written "A" and "c" here.
CentA == "A"
CentC == "c"
Digits == {"0", "1", "2", "3", "4", "5", "6", "7", "8", "9"}
IsDigit(c) == c \in Digits
DigitVal(c) ==
    CASE c = "0" -> 0 [] c = "1" -> 1 [] c = "2" -> 2 [] c = "3" -> 3
      [] c = "4" -> 4 [] c = "5" -> 5 [] c = "6" -> 6 [] c = "7" -> 7
      [] c = "8" -> 8 [] c = "9" -> 9

\* str.replace(c, '') for a one-character c
ReplaceChar(s, c) == SelectSeq(s, LAMBDA x : x # c)

\* str.replace(<cent marker>, ''): non-overlapping occurrences, left to right
RECURSIVE ReplaceCent(_)
ReplaceCent(s) ==
    IF Len(s) < 2 THEN s
    ELSE IF s[1] = CentA /\ s[2] = CentC
         THEN ReplaceCent(SubSeq(s, 3, Len(s)))
         ELSE <<s[1]>> \o ReplaceCent(Tail(s))

\* price_text.replace('$', '').replace(<cent>, '').replace('%', '')
StripMarkers(s) == ReplaceChar(ReplaceCent(ReplaceChar(s, "$")), "%")

\* length of the maximal run of digits of s starting at position i
RECURSIVE DigitRun(_, _)
DigitRun(s, i) ==
    IF i <= Len(s) /\ IsDigit(s[i]) THEN 1 + DigitRun(s, i + 1) ELSE 0

\* re.findall(r'(\d+\.?\d*)', s)[0]: the leftmost match, greedy.
\* [found, int, frac]: the digits before and after the optional point.
FirstNumber(s) ==
    IF \A i \in 1..Len(s) : ~IsDigit(s[i])
    THEN [found |-> FALSE, int |-> <<>>, frac |-> <<>>]
    ELSE LET i == CHOOSE j \in 1..Len(s) :
                     IsDigit(s[j]) /\ \A h \in 1..(j - 1) : ~IsDigit(s[h])
             n == DigitRun(s, i)
             dot == (i + n <= Len(s)) /\ s[i + n] = "."
             m == IF dot THEN DigitRun(s, i + n + 1) ELSE 0
         IN  [found |-> TRUE,
              int   |-> SubSeq(s, i, i + n - 1),
              frac  |-> IF dot THEN SubSeq(s, i + n + 1, i + n + m) ELSE <<>>]

RECURSIVE DigitsToInt(_)
DigitsToInt(d) ==
    IF d = <<>> THEN 0
    ELSE 10 * DigitsToInt(SubSeq(d, 1, Len(d) - 1)) + DigitVal(d[Len(d)])

\* float(matches[0])
FloatOfMatch(m) == Dec(DigitsToInt(m.int \o m.frac), Len(m.frac))

\* max(0.01, min(0.99, price))
ClampNoFloor(p) == IF DecLt(Dec(99, 2), p) THEN Dec(99, 2) ELSE p
Clamp(p) ==
    LET q == IF DecLt(Dec(99, 2), p) THEN Dec(99, 2) ELSE p
    IN  IF DecLt(q, Dec(1, 2)) THEN Dec(1, 2) ELSE q

\* if '%' in price_text or price > 1: price = price / 100
PercentRuleOnlySign(text, p) ==
    IF \E i \in 1..Len(text) : text[i] = "%" THEN Dec(p.num, p.k + 2) ELSE p
PercentRule(text, p) ==
    IF (\E i \in 1..Len(text) : text[i] = "%") \/ DecLt(Dec(1, 0), p)
    THEN Dec(p.num, p.k + 2)
    ELSE p

DefaultPrice == Dec(5, 1)

\* the whole method; arg is [kind |-> "str", s |-> <<chars>>] or a non-string
\* value, on which price_text.replace raises and the bare except returns 0.5
_parse_price(arg) ==
    IF arg.kind # "str"
    THEN [status |-> "returned", value |-> DefaultPrice]
    ELSE LET m == FirstNumber(StripMarkers(arg.s))
         IN  IF m.found
             THEN [status |-> "returned",
                   value  |-> Clamp(PercentRule(arg.s, FloatOfMatch(m)))]
             ELSE [status |-> "returned", value |-> DefaultPrice]

Str(s) == [kind |-> "str", s |-> s]
NonStr == [kind |-> "nonstr", s |-> <<>>]

PriceAlphabet == {"0", "1", "5", ".", "$", "%", "-", "x", CentA, CentC}
\* the cases of test_price_validation
TestPriceTexts ==
    { <<"$", "0", ".", "6", "5">>, <<"6", "5", "%">>, <<"6", "5", CentA, CentC>>,
      <<"0", ".", "4", "5">>, <<"i", "n", "v", "a", "l", "i", "d">> }
PriceInputs ==
    {Str(s) : s \in SeqsUpTo(PriceAlphabet, MaxPriceLen) \cup TestPriceTexts}
        \cup {NonStr}

InitPrice ==
    /\ pc = "price_ready"
    /\ price_text \in PriceInputs
    /\ price = None
    /\ unified_products = None
    /\ files = None
    /\ written = {}
    /\ csv_path = "none"
    /\ stage = None
    /\ invoked = {}

ParsePrice ==
    /\ pc = "price_ready"
    /\ price' = _parse_price(price_text)
    /\ pc' = "price_done"
    /\ UNCHANGED <<price_text, unified_products, files, written, csv_path,
                   stage, invoked>>

NextPrice == ParsePrice
SpecPrice == InitPrice /\ [][NextPrice]_vars

(***************************************************************************)
(* Python / JSON values handled by main.py                                 *)
(*   numbers are integers in units of 1e-4, strings are character tuples,  *)
(*   a dict is a sequence of key/value fields (a later duplicate wins)     *)
(***************************************************************************)
Unit == 10000
FracWidth == 4

Num(n) == [ty |-> "num", n |-> n]
StrV(s) == [ty |-> "str", s |-> s]
Null == [ty |-> "null"]
ListV(xs) == [ty |-> "list", items |-> xs]
DictV(fs) == [ty |-> "dict", fields |-> fs]
Field(k, v) == [k |-> k, v |-> v]

\* k in d
HasKey(d, k) == \E i \in 1..Len(d.fields) : d.fields[i].k = k
\* d.get(k, default)
Get(d, k, default) ==
    IF HasKey(d, k)
    THEN LET i == CHOOSE j \in 1..Len(d.fields) :
                     /\ d.fields[j].k = k
                     /\ \A h \in (j + 1)..Len(d.fields) : d.fields[h].k # k
         IN  d.fields[i].v
    ELSE default

DigitChar(d) ==
    CASE d = 0 -> "0" [] d = 1 -> "1" [] d = 2 -> "2" [] d = 3 -> "3"
      [] d = 4 -> "4" [] d = 5 -> "5" [] d = 6 -> "6" [] d = 7 -> "7"
      [] d = 8 -> "8" [] d = 9 -> "9"

RECURSIVE IntToDigits(_)
IntToDigits(n) ==
    IF n < 10 THEN <<DigitChar(n)>>
    ELSE IntToDigits(n \div 10) \o <<DigitChar(n % 10)>>

\* the w digits of the fraction f
RECURSIVE FixedDigits(_, _)
FixedDigits(f, w) ==
    IF w = 0 THEN <<>>
    ELSE FixedDigits(f \div 10, w - 1) \o <<DigitChar(f % 10)>>

\* d without its trailing zeros (at least one digit is kept)
RECURSIVE StripZeros(_)
StripZeros(d) ==
    IF Len(d) > 1 /\ d[Len(d)] = "0" THEN StripZeros(SubSeq(d, 1, Len(d) - 1))
    ELSE d

FracToDigits(f, w) == StripZeros(FixedDigits(f, w))

\* the text of a float, as repr / json.dumps write it: 0.6, 85.0, -1.5
FormatNum(n) ==
    LET a == IF n < 0 THEN 0 - n ELSE n
    IN  (IF n < 0 THEN <<"-">> ELSE <<>>)
            \o IntToDigits(a \div Unit) \o <<".">> \o FracToDigits(a % Unit, FracWidth)

\* float(s) for a text of digits and points: [ok, n]; ok is FALSE where
\* Python raises ValueError ('1.2.3', '.', '')
PyFloat(s) ==
    LET dots == {i \in 1..Len(s) : s[i] = "."}
        good == /\ \A i \in 1..Len(s) : IsDigit(s[i]) \/ s[i] = "."
                /\ Cardinality(dots) <= 1
                /\ \E i \in 1..Len(s) : IsDigit(s[i])
    IN  IF ~good THEN [ok |-> FALSE, n |-> 0]
        ELSE LET d == IF dots = {} THEN Len(s) + 1 ELSE CHOOSE i \in dots : TRUE
                 ip == SubSeq(s, 1, d - 1)
                 fp == SubSeq(s, d + 1, Len(s))
                 f4 == SubSeq(fp \o <<"0", "0", "0", "0">>, 1, FracWidth)
             IN  [ok |-> TRUE, n |-> DigitsToInt(ip) * Unit + DigitsToInt(f4)]

\* a JSON number literal: -? digits (. digits)?
JsonNumber(s) ==
    LET neg == s # <<>> /\ s[1] = "-"
        body == IF neg THEN Tail(s) ELSE s
        r == PyFloat(body)
        shape == /\ body # <<>>
                 /\ IsDigit(body[1])
                 /\ IsDigit(body[Len(body)])
    IN  IF r.ok /\ shape
        THEN [ok |-> TRUE, n |-> IF neg THEN 0 - r.n ELSE r.n]
        ELSE [ok |-> FALSE, n |-> 0]

(***************************************************************************)
(* Text of the analysis payload: a sequence of lexical tokens              *)
(*   "{" "}" "[" "]" ","  punctuation                                      *)
(*   key   "<name>":        (quoted name directly followed by the colon)   *)
(*   str   "<chars>"        num  <chars>       null                        *)
(*   nl4   newline + 4 spaces   nl2  newline + 2 spaces   sp  a space      *)
(*   prose a word of surrounding text                                      *)
(***************************************************************************)
Tok(t) == [t |-> t]
KeyTok(k) == [t |-> "key", k |-> k]
StrTok(s) == [t |-> "str", c |-> s]
NumTok(s) == [t |-> "num", c |-> s]
WsToks == {"nl4", "nl2", "sp"}

RECURSIVE Dumps(_)
RECURSIVE DumpsItems(_)
RECURSIVE DumpsFields(_)
\* json.dumps(v), compact
Dumps(v) ==
    CASE v.ty = "num" -> <<NumTok(FormatNum(v.n))>>
      [] v.ty = "str" -> <<StrTok(v.s)>>
      [] v.ty = "null" -> <<Tok("null")>>
      [] v.ty = "list" -> <<Tok("[")>> \o DumpsItems(v.items) \o <<Tok("]")>>
      [] v.ty = "dict" -> <<Tok("{")>> \o DumpsFields(v.fields) \o <<Tok("}")>>
DumpsItems(xs) ==
    IF xs = <<>> THEN <<>>
    ELSE IF Len(xs) = 1 THEN Dumps(xs[1])
    ELSE Dumps(xs[1]) \o <<Tok(",")>> \o DumpsItems(Tail(xs))
DumpsFields(fs) ==
    IF fs = <<>> THEN <<>>
    ELSE IF Len(fs) = 1 THEN <<KeyTok(fs[1].k)>> \o Dumps(fs[1].v)
    ELSE <<KeyTok(fs[1].k)>> \o Dumps(fs[1].v) \o <<Tok(",")>>
             \o DumpsFields(Tail(fs))

\* json.dumps of an object with the given whitespace after its opening brace
DumpsObject(d, ws) ==
    <<Tok("{")>> \o (IF ws = "" THEN <<>> ELSE <<Tok(ws)>>)
        \o DumpsFields(d.fields) \o <<Tok("}")>>

RECURSIVE SkipWs(_, _)
SkipWs(t, i) ==
    IF i <= Len(t) /\ t[i].t \in WsToks THEN SkipWs(t, i + 1) ELSE i

ParseFail == [ok |-> FALSE, val |-> Null, next |-> 0]
ParseOk(v, n) == [ok |-> TRUE, val |-> v, next |-> n]

RECURSIVE ParseValue(_, _)
RECURSIVE ParseElems(_, _, _)
RECURSIVE ParseMembers(_, _, _)
\* the JSON value starting at token i0 of t
ParseValue(t, i0) ==
    LET i == SkipWs(t, i0)
    IN  IF i > Len(t) THEN ParseFail
        ELSE CASE t[i].t = "str" -> ParseOk(StrV(t[i].c), i + 1)
               [] t[i].t = "null" -> ParseOk(Null, i + 1)
               [] t[i].t = "num" ->
                      LET r == JsonNumber(t[i].c)
                      IN  IF r.ok THEN ParseOk(Num(r.n), i + 1) ELSE ParseFail
               [] t[i].t = "[" ->
                      LET j == SkipWs(t, i + 1)
                      IN  IF j <= Len(t) /\ t[j].t = "]"
                          THEN ParseOk(ListV(<<>>), j + 1)
                          ELSE ParseElems(t, i + 1, <<>>)
               [] t[i].t = "{" ->
                      LET j == SkipWs(t, i + 1)
                      IN  IF j <= Len(t) /\ t[j].t = "}"
                          THEN ParseOk(DictV(<<>>), j + 1)
                          ELSE ParseMembers(t, i + 1, <<>>)
               [] OTHER -> ParseFail
ParseElems(t, i, acc) ==
    LET r == ParseValue(t, i)
    IN  IF ~r.ok THEN ParseFail
        ELSE LET j == SkipWs(t, r.next)
             IN  IF j > Len(t) THEN ParseFail
                 ELSE IF t[j].t = "," THEN ParseElems(t, j + 1, Append(acc, r.val))
                 ELSE IF t[j].t = "]" THEN ParseOk(ListV(Append(acc, r.val)), j + 1)
                 ELSE ParseFail
ParseMembers(t, i0, acc) ==
    LET i == SkipWs(t, i0)
    IN  IF i > Len(t) \/ t[i].t # "key" THEN ParseFail
        ELSE LET r == ParseValue(t, i + 1)
             IN  IF ~r.ok THEN ParseFail
                 ELSE LET j == SkipWs(t, r.next)
                          fs == Append(acc, Field(t[i].k, r.val))
                      IN  IF j > Len(t) THEN ParseFail
                          ELSE IF t[j].t = "," THEN ParseMembers(t, j + 1, fs)
                          ELSE IF t[j].t = "}" THEN ParseOk(DictV(fs), j + 1)
                          ELSE ParseFail

\* json.loads(t): [ok, val]; ok is FALSE where it raises JSONDecodeError
JsonLoads(t) ==
    LET r == ParseValue(t, 1)
    IN  IF r.ok /\ SkipWs(t, r.next) > Len(t)
        THEN [ok |-> TRUE, val |-> r.val]
        ELSE [ok |-> FALSE, val |-> Null]

(***************************************************************************)
(* main.py : recovery of the cluster list from text (lines 296-345)        *)
(***************************************************************************)
KeyAt(t, i, k) == i >= 1 /\ i <= Len(t) /\ t[i].t = "key" /\ t[i].k = k

MinOf(S) == CHOOSE i \in S : \A j \in S : i <= j
MaxOf(S) == CHOOSE i \in S : \A j \in S : j <= i

\* raw_content.find('{\n<indent>"unified_products":'); 0 when not found
FindBraceKey(t, ws) ==
    LET S == {i \in 1..Len(t) : /\ t[i].t = "{"
                                /\ i + 1 <= Len(t)
                                /\ t[i + 1].t = ws
                                /\ KeyAt(t, i + 2, "unified_products")}
    IN  IF S = {} THEN 0 ELSE MinOf(S)

\* raw_content.find('"unified_products":'); 0 when not found
FindKey(t) ==
    LET S == {i \in 1..Len(t) : KeyAt(t, i, "unified_products")}
    IN  IF S = {} THEN 0 ELSE MinOf(S)

\* lines 301-312: the start of the JSON, 0 when no marker is found
JsonStart(t) ==
    IF FindBraceKey(t, "nl4") # 0 THEN FindBraceKey(t, "nl4")
    ELSE IF FindBraceKey(t, "nl2") # 0 THEN FindBraceKey(t, "nl2")
    ELSE LET k == FindKey(t)
             B == {i \in 1..k : t[i].t = "{"}
         IN  IF k = 0 THEN 0
             ELSE IF B = {} THEN k
             ELSE MaxOf(B)

\* lines 316-325: the index of the closing brace at which the count returns
\* to zero, 0 when there is none
RECURSIVE BraceScan(_, _, _)
BraceScan(t, i, count) ==
    LET B == {j \in i..Len(t) : t[j].t \in {"{", "}"}}
    IN  IF B = {} THEN 0
        ELSE IF t[MinOf(B)].t = "{" THEN BraceScan(t, MinOf(B) + 1, count + 1)
        ELSE IF count - 1 = 0 THEN MinOf(B)
        ELSE BraceScan(t, MinOf(B) + 1, count - 1)

\* the longest prefix of c made of digits and points
RECURSIVE DigitDotPrefix(_)
DigitDotPrefix(c) ==
    IF c # <<>> /\ (IsDigit(c[1]) \/ c[1] = ".")
    THEN <<c[1]>> \o DigitDotPrefix(Tail(c))
    ELSE <<>>

\* what the pattern '"<key>":\s*<group>' captures at the key token i:
\* a quoted string (mode "str") or a run of digits and points (mode "num")
CaptureAt(t, i, mode) ==
    LET j == SkipWs(t, i + 1)
    IN  IF j > Len(t) THEN <<>>
        ELSE IF mode = "str"
             THEN IF t[j].t = "str" THEN <<t[j].c>> ELSE <<>>
        ELSE IF t[j].t = "num" /\ DigitDotPrefix(t[j].c) # <<>>
             THEN <<DigitDotPrefix(t[j].c)>>
        ELSE <<>>

\* re.findall(pattern, raw_content), from token i on
RECURSIVE FindAll(_, _, _, _)
FindAll(t, i, k, mode) ==
    LET S == {j \in i..Len(t) : KeyAt(t, j, k)}
    IN  IF S = {} THEN <<>>
        ELSE CaptureAt(t, MinOf(S), mode) \o FindAll(t, MinOf(S) + 1, k, mode)

Extracted == <<"e", "x", "t", "r", "a", "c", "t", "e", "d">>

\* a variant that pairs names and prices up to the shorter of the two
extract_products_zip_shortest(t) ==
    LET names == FindAll(t, 1, "unified_name", "str")
        prices == FindAll(t, 1, "average_price", "num")
        n == IF Len(names) < Len(prices) THEN Len(names) ELSE Len(prices)
    IN  [raised |-> FALSE,
         pg |-> ListV([i \in 1..n |->
                    DictV(<<Field("unified_name", StrV(names[i])),
                            Field("products", ListV(<<StrV(names[i])>>)),
                            Field("average_price", Num(PyFloat(prices[i]).n)),
                            Field("confidence_level", Num(0)),
                            Field("sources", ListV(<<StrV(Extracted)>>))>>)])]
\* _extract_products_manually: [raised, pg]; raised where float() raises
\* ValueError on a captured run
_extract_products_manually(t) ==
    LET names == FindAll(t, 1, "unified_name", "str")
        prices == FindAll(t, 1, "average_price", "num")
        confidences == FindAll(t, 1, "confidence_level", "num")
        bad == \E i \in 1..Len(names) :
                   \/ (i <= Len(prices) /\ ~PyFloat(prices[i]).ok)
                   \/ (i <= Len(confidences) /\ ~PyFloat(confidences[i]).ok)
        group(i) ==
            DictV(<<Field("unified_name", StrV(names[i])),
                    Field("products", ListV(<<StrV(names[i])>>)),
                    Field("average_price",
                          Num(IF i <= Len(prices) THEN PyFloat(prices[i]).n ELSE 0)),
                    Field("confidence_level",
                          Num(IF i <= Len(confidences)
                              THEN PyFloat(confidences[i]).n ELSE 0)),
                    Field("sources", ListV(<<StrV(Extracted)>>))>>)
    IN  IF bad THEN [raised |-> TRUE, pg |-> Null]
        ELSE [raised |-> FALSE,
              pg |-> ListV([i \in 1..Len(names) |-> group(i)])]

\* lines 331-339: data is the outcome of json.loads(json_str)
GroupsOfLoaded(t, data) ==
    IF ~data.ok THEN _extract_products_manually(t)
    ELSE IF data.val.ty = "dict"
         THEN [raised |-> FALSE,
               pg |-> Get(data.val, "unified_products", ListV(<<>>))]
    ELSE [raised |-> TRUE, pg |-> Null]

\* lines 314-345: json_start is the start found, 0 for none
GroupsFrom(t, json_start) ==
    IF json_start = 0 THEN _extract_products_manually(t)
    ELSE IF BraceScan(t, json_start, 0) = 0 THEN _extract_products_manually(t)
    ELSE GroupsOfLoaded(t, JsonLoads(SubSeq(t, json_start,
                                            BraceScan(t, json_start, 0))))

\* lines 296-345 for a string raw_content: [raised, pg]
RecoverGroups(t) == GroupsFrom(t, JsonStart(t))

(***************************************************************************)
(* main.py : one row per product group (lines 361-441)                     *)
(***************************************************************************)
\* bool(v)
Truthy(v) ==
    CASE v.ty = "null" -> FALSE
      [] v.ty = "num" -> v.n # 0
      [] v.ty = "str" -> v.s # <<>>
      [] v.ty = "list" -> v.items # <<>>
      [] v.ty = "dict" -> v.fields # <<>>

\* float('nan'): the value that is not a number, written as an integer
\* below every number of the model
NaN == 0 - 2 * 100 * Unit
\* the texts float() reads as nan: nan in any case behind an optional sign
IsNaNText(s) ==
    LET body == IF s # <<>> /\ s[1] \in {"-", "+"} THEN Tail(s) ELSE s
    IN  /\ Len(body) = 3
        /\ body[1] \in {"n", "N"}
        /\ body[2] \in {"a", "A"}
        /\ body[3] \in {"n", "N"}

\* float(v): [ok, n]; ok is FALSE where Python raises ValueError or TypeError
PyFloatOf(v) ==
    CASE v.ty = "num" -> [ok |-> TRUE, n |-> v.n]
      [] v.ty = "str" ->
             IF IsNaNText(v.s) THEN [ok |-> TRUE, n |-> NaN]
             ELSE
             LET neg == v.s # <<>> /\ v.s[1] = "-"
                 r == PyFloat(IF neg THEN Tail(v.s) ELSE v.s)
             IN  [ok |-> r.ok, n |-> IF neg THEN 0 - r.n ELSE r.n]
      [] OTHER -> [ok |-> FALSE, n |-> 0]

\* str(v); the text of a list or dict is abbreviated
PyStr(v) ==
    CASE v.ty = "str" -> v.s
      [] v.ty = "null" -> <<"N", "o", "n", "e">>
      [] v.ty = "num" -> FormatNum(v.n)
      [] v.ty = "list" -> <<"[", "]">>
      [] v.ty = "dict" -> <<"{", "}">>

\* iter(v): [ok, items]; ok is FALSE where Python raises TypeError
PyIter(v) ==
    CASE v.ty = "list" -> [ok |-> TRUE, items |-> v.items]
      [] v.ty = "str" ->
             [ok |-> TRUE, items |-> [i \in 1..Len(v.s) |-> StrV(<<v.s[i]>>)]]
      [] v.ty = "dict" ->
             [ok |-> TRUE,
              items |-> [i \in 1..Len(v.fields) |-> StrV(<<v.fields[i].k>>)]]
      [] OTHER -> [ok |-> FALSE, items |-> <<>>]

\* len(v): [ok, n]
PyLen(v) ==
    CASE v.ty = "list" -> [ok |-> TRUE, n |-> Len(v.items)]
      [] v.ty = "str" -> [ok |-> TRUE, n |-> Len(v.s)]
      [] v.ty = "dict" -> [ok |-> TRUE, n |-> Len(v.fields)]
      [] OTHER -> [ok |-> FALSE, n |-> 0]

RECURSIVE SumSeq(_)
SumSeq(s) == IF s = <<>> THEN 0 ELSE s[1] + SumSeq(Tail(s))
MinSeq(s) == MinOf({s[i] : i \in 1..Len(s)})
MaxSeq(s) == MaxOf({s[i] : i \in 1..Len(s)})

RECURSIVE FlatMap(_, _)
\* the concatenation of the tuples s[1], s[2], ...
FlatMap(s, sep) ==
    IF s = <<>> THEN <<>>
    ELSE IF Len(s) = 1 THEN s[1]
    ELSE s[1] \o sep \o FlatMap(Tail(s), sep)

\* '; '.join(names)
JoinSemi(names) == FlatMap(names, <<";", " ">>)

\* round(a / b) for b > 0, ties to even
RoundDiv(a, b) ==
    LET q == a \div b
        r == a % b
    IN  IF 2 * r > b THEN q + 1
        ELSE IF 2 * r < b THEN q
        ELSE IF q % 2 = 0 THEN q ELSE q + 1

RECURSIVE ISqrtIn(_, _, _)
ISqrtIn(n, lo, hi) ==
    IF lo = hi THEN lo
    ELSE LET mid == (lo + hi + 1) \div 2
         IN  IF mid * mid <= n THEN ISqrtIn(n, mid, hi) ELSE ISqrtIn(n, lo, mid - 1)
\* the integer part of the square root of n
ISqrt(n) == ISqrtIn(n, 0, 46340)

\* round(sqrt(a / b)) for a >= 0, b > 0
RoundSqrt(a, b) ==
    LET q == a \div b
        r == a % b
        w == ISqrt(q)
    IN  IF q > w * w + w THEN w + 1
        ELSE IF q < w * w + w THEN w
        ELSE IF 4 * r > b THEN w + 1
        ELSE IF 4 * r < b THEN w
        ELSE IF w % 2 = 0 THEN w ELSE w + 1

\* round(pd.Series(prices).std(), 4): the sample standard deviation
\* sqrt(sum((x - mean)^2) / (n - 1)), with n*x - sum in place of x - mean
SeriesStd(prices) ==
    LET n == Len(prices)
        S == SumSeq(prices)
        d == [i \in 1..n |-> (n * prices[i] - S) * (n * prices[i] - S)]
    IN  RoundSqrt(SumSeq(d), n * n * (n - 1))

\* lines 395-409 with the rounding of lines 431-438: [raised, avg, min, max, var]
StatsRow(raised, avg, lo, hi, var) ==
    [raised |-> raised, average_price |-> avg, min_price |-> lo,
     max_price |-> hi, price_variance |-> var]
\* the prices that are numbers
Finite(prices) == SelectSeq(prices, LAMBDA x : x # NaN)
\* lines 397-400 for prices with a nan among them: the sum is nan; min() and
\* max() keep their first argument unless a later one compares below or
\* above it, and no comparison with nan is true; Series.std() leaves nan
\* out and is nan with fewer than two numbers
NanStats(prices, finite) ==
    StatsRow(FALSE, NaN,
             IF prices[1] = NaN THEN NaN ELSE MinSeq(finite),
             IF prices[1] = NaN THEN NaN ELSE MaxSeq(finite),
             IF Len(prices) = 1 THEN 0
             ELSE IF Len(finite) > 1 THEN SeriesStd(finite) ELSE NaN)
FiniteStats(prices) ==
    StatsRow(FALSE, RoundDiv(SumSeq(prices), Len(prices)),
             RoundDiv(MinSeq(prices), 1), RoundDiv(MaxSeq(prices), 1),
             IF Len(prices) > 1 THEN SeriesStd(prices) ELSE 0)
PriceStats(prices, finite) ==
    IF finite = prices THEN FiniteStats(prices) ELSE NanStats(prices, finite)
ClusterStatsGroupFirst(prices, product_group) ==
    LET g == Get(product_group, "average_price", Num(0))
    IN  IF g.ty = "num" /\ g.n > 0
        THEN StatsRow(FALSE, RoundDiv(g.n, 1), RoundDiv(g.n, 1), RoundDiv(g.n, 1), 0)
        ELSE IF prices # <<>>
        THEN PriceStats(prices, Finite(prices))
        ELSE StatsRow(FALSE, 0, 0, 0, 0)
ClusterStats(prices, product_group) ==
    IF prices # <<>>
    THEN PriceStats(prices, Finite(prices))
    ELSE LET g == Get(product_group, "average_price", Num(0))
         IN  IF g.ty # "num" THEN StatsRow(TRUE, 0, 0, 0, 0)
             ELSE IF g.n > 0
             THEN StatsRow(FALSE, RoundDiv(g.n, 1), RoundDiv(g.n, 1),
                           RoundDiv(g.n, 1), 0)
             ELSE StatsRow(FALSE, 0, 0, 0, 0)

\* lines 376-393: the product_names entry of one member (a value)
MemberName(product) ==
    IF product.ty = "str" THEN product
    ELSE IF product.ty = "dict" THEN Get(product, "name", StrV(PyStr(product)))
    ELSE StrV(PyStr(product))

\* lines 386-391: the prices entries of one member (none or one)
MemberPrice(product) ==
    IF product.ty = "dict" /\ HasKey(product, "price")
          /\ PyFloatOf(Get(product, "price", Null)).ok
    THEN <<PyFloatOf(Get(product, "price", Null)).n>>
    ELSE <<>>

RECURSIVE Concat(_)
Concat(ss) == IF ss = <<>> THEN <<>> ELSE ss[1] \o Concat(Tail(ss))

UpperCase ==
    <<"A", "B", "C", "D", "E", "F", "G", "H", "I", "J", "K", "L", "M",
      "N", "O", "P", "Q", "R", "S", "T", "U", "V", "W", "X", "Y", "Z">>
LowerCase ==
    <<"a", "b", "c", "d", "e", "f", "g", "h", "i", "j", "k", "l", "m",
      "n", "o", "p", "q", "r", "s", "t", "u", "v", "w", "x", "y", "z">>
\* str.lower()
Lower(s) ==
    [i \in 1..Len(s) |->
        IF \E j \in 1..26 : UpperCase[j] = s[i]
        THEN LowerCase[CHOOSE j \in 1..26 : UpperCase[j] = s[i]]
        ELSE s[i]]
\* kw in s
Contains(s, kw) ==
    \E i \in 1..(Len(s) - Len(kw) + 1) : SubSeq(s, i, i + Len(kw) - 1) = kw

FinancialKeywords ==
    { <<"b", "i", "t", "c", "o", "i", "n">>,
      <<"e", "t", "h", "e", "r", "e", "u", "m">>,
      <<"s", "o", "l", "a", "n", "a">>,
      <<"c", "r", "y", "p", "t", "o">>,
      <<"f", "i", "n", "a", "n", "c", "i", "a", "l">>,
      <<"m", "a", "r", "k", "e", "t">> }
PoliticsKeywords ==
    { <<"e", "l", "e", "c", "t", "i", "o", "n">>,
      <<"p", "r", "e", "s", "i", "d", "e", "n", "t", "i", "a", "l">>,
      <<"p", "o", "l", "i", "t", "i", "c", "s">> }
SportsKeywords ==
    { <<"w", "o", "r", "l", "d", " ", "c", "u", "p">>,
      <<"s", "u", "p", "e", "r", " ", "b", "o", "w", "l">>,
      <<"w", "o", "r", "l", "d", " ", "s", "e", "r", "i", "e", "s">>,
      <<"u", "e", "f", "a">>,
      <<"c", "h", "a", "m", "p", "i", "o", "n", "s">>,
      <<"f", "1">>, <<"n", "f", "l">>,
      <<"s", "p", "o", "r", "t", "s">> }
NobelKeyword == <<"n", "o", "b", "e", "l">>

\* a variant that tests the politics keywords first
CategoryPoliticsFirst(unified_name) ==
    LET low == Lower(unified_name)
    IN  IF \E kw \in PoliticsKeywords : Contains(low, kw) THEN "Politics"
        ELSE IF \E kw \in FinancialKeywords : Contains(low, kw)
             THEN "Financial Markets"
        ELSE IF \E kw \in SportsKeywords : Contains(low, kw) THEN "Sports"
        ELSE IF Contains(low, NobelKeyword) THEN "Awards"
        ELSE "Other"
\* lines 413-425: the category of a unified name
Category(unified_name) ==
    LET low == Lower(unified_name)
    IN  IF \E kw \in FinancialKeywords : Contains(low, kw) THEN "Financial Markets"
        ELSE IF \E kw \in PoliticsKeywords : Contains(low, kw) THEN "Politics"
        ELSE IF \E kw \in SportsKeywords : Contains(low, kw) THEN "Sports"
        ELSE IF Contains(low, NobelKeyword) THEN "Awards"
        ELSE "Other"

Unknown == <<"U", "n", "k", "n", "o", "w", "n">>

\* lines 427-440: the row, or raised where a step of lines 369-440 raises
MakeRow(it, names, stats, unified_name, conf, count, srcs) ==
    IF \/ ~it.ok
       \/ stats.raised
       \/ \E i \in 1..Len(names) : names[i].ty # "str"
       \/ ~conf.ok
       \/ ~count.ok
       \/ ~srcs.ok
    THEN [raised |-> TRUE, row |-> None]
    ELSE [raised |-> FALSE,
          row |-> [unified_name |-> unified_name,
                   source_products |->
                       JoinSemi([i \in 1..Len(names) |-> names[i].s]),
                   average_price |-> stats.average_price,
                   price_variance |-> stats.price_variance,
                   confidence_level |->
                       IF conf.n = NaN THEN NaN ELSE RoundDiv(conf.n, 100),
                   source_count |-> count.n,
                   sources |->
                       JoinSemi([i \in 1..Len(srcs.items) |->
                                    PyStr(srcs.items[i])]),
                   category |-> Category(unified_name),
                   min_price |-> stats.min_price,
                   max_price |-> stats.max_price]]

\* lines 375-376: the members the loop visits
ProductsIter(products) ==
    IF Truthy(products) THEN PyIter(products)
    ELSE [ok |-> TRUE, items |-> <<>>]

\* a variant whose source_count is the length of the sources list
RowOfMembersCountingSources(product_group, it) ==
    MakeRow(it,
            [i \in 1..Len(it.items) |-> MemberName(it.items[i])],
            ClusterStats(Concat([i \in 1..Len(it.items) |->
                                    MemberPrice(it.items[i])]),
                         product_group),
            PyStr(Get(product_group, "unified_name", StrV(Unknown))),
            PyFloatOf(Get(product_group, "confidence_level", Num(0))),
            PyLen(Get(product_group, "sources", ListV(<<>>))),
            PyIter(Get(product_group, "sources", ListV(<<>>))))
\* lines 372-440 with it the members of the record
RowOfMembers(product_group, it) ==
    MakeRow(it,
            [i \in 1..Len(it.items) |-> MemberName(it.items[i])],
            ClusterStats(Concat([i \in 1..Len(it.items) |->
                                    MemberPrice(it.items[i])]),
                         product_group),
            PyStr(Get(product_group, "unified_name", StrV(Unknown))),
            PyFloatOf(Get(product_group, "confidence_level", Num(0))),
            PyLen(Get(product_group, "products", ListV(<<>>))),
            PyIter(Get(product_group, "sources", ListV(<<>>))))

\* lines 369-440 for one mapping record: [raised, row]
BuildRow(product_group) ==
    RowOfMembers(product_group,
                 ProductsIter(Get(product_group, "products", ListV(<<>>))))

(***************************************************************************)
(* main.py : the report files                                              *)
(*   a text is [lines, tail]: its terminated lines and the characters      *)
(*   after the last newline.  A line is [lead, kind, cells]: its leading   *)
(*   blanks, then a comment ('#' and its cells), the header (the column    *)
(*   names) or a data row.                                                 *)
(***************************************************************************)
NormalPath == "unified_prediction_markets.csv"
FallbackPath == "unified_prediction_markets_fallback.csv"
ErrorPath == "unified_prediction_markets_error.csv"
Paths == {NormalPath, FallbackPath, ErrorPath}
NoFile == [lines |-> <<>>, tail |-> <<>>, exists |-> FALSE]

Columns ==
    <<"unified_name", "source_products", "average_price", "price_variance",
      "confidence_level", "source_count", "sources", "category", "min_price",
      "max_price">>

Sp4 == <<" ", " ", " ", " ">>
Line(lead, kind, cells) == [lead |-> lead, kind |-> kind, cells |-> cells]
Text(lines, tail) == [lines |-> lines, tail |-> tail, exists |-> TRUE]

\* a + b on texts: the tail of a runs into the first line of b
TextConcat(a, b) ==
    IF b.lines = <<>> THEN Text(a.lines, a.tail \o b.tail)
    ELSE Text(a.lines \o <<[b.lines[1] EXCEPT !.lead = a.tail \o @]>>
                  \o Tail(b.lines),
              b.tail)

\* what DataFrame(rows).to_csv(path, index=False) writes: the header line
\* made of the keys of the row dict, then one line per row
ToCsv(rows) ==
    Text(<<Line(<<>>, "header", Columns)>>
             \o [i \in 1..Len(rows) |-> Line(<<>>, "row", <<rows[i]>>)],
         <<>>)

\* df.sort_values(['confidence_level', 'source_count'],
\*                ascending=[False, False]): a stable sort
RowBeforeConfidenceOnly(a, b) == a.confidence_level > b.confidence_level
RowBefore(a, b) ==
    \/ a.confidence_level > b.confidence_level
    \/ /\ a.confidence_level = b.confidence_level
       /\ a.source_count > b.source_count

\* row put behind every row of the sorted sequence that it does not precede
InsertRow(sorted, row) ==
    LET S == {i \in 1..Len(sorted) : ~RowBefore(row, sorted[i])}
        k == IF S = {} THEN 0 ELSE MaxOf(S)
    IN  SubSeq(sorted, 1, k) \o <<row>> \o SubSeq(sorted, k + 1, Len(sorted))

RECURSIVE SortRowsFrom(_, _)
SortRowsFrom(sorted, rows) ==
    IF rows = <<>> THEN sorted
    ELSE SortRowsFrom(InsertRow(sorted, rows[1]), Tail(rows))
SortRows(rows) == SortRowsFrom(<<>>, rows)

\* a variant that counts a confidence of 80 as high
SummaryStatsFrom80(df) ==
    LET conf == [i \in 1..Len(df) |-> df[i].confidence_level]
    IN  Text(<<Line(<<>>, "comment", <<"Summary Statistics">>),
               Line(Sp4, "comment", <<"Total Products", Len(df)>>),
               Line(Sp4, "comment",
                    <<"Average Confidence", RoundDiv(SumSeq(conf), Len(df))>>),
               Line(Sp4, "comment",
                    <<"High Confidence Products (>80%)",
                      Cardinality({i \in 1..Len(df) :
                                      df[i].confidence_level >= 8000})>>),
               Line(Sp4, "comment",
                    <<"Multi-source Products",
                      Cardinality({i \in 1..Len(df) : df[i].source_count > 1})>>),
               Line(Sp4, "comment", <<>>)>>,
             Sp4)
\* lines 461-467: the summary text; its last line is four blanks that are
\* not terminated
SummaryStats(df) ==
    LET conf == [i \in 1..Len(df) |-> df[i].confidence_level]
    IN  Text(<<Line(<<>>, "comment", <<"Summary Statistics">>),
               Line(Sp4, "comment", <<"Total Products", Len(df)>>),
               Line(Sp4, "comment",
                    <<"Average Confidence", RoundDiv(SumSeq(conf), Len(df))>>),
               Line(Sp4, "comment",
                    <<"High Confidence Products (>80%)",
                      Cardinality({i \in 1..Len(df) :
                                      df[i].confidence_level > 8000})>>),
               Line(Sp4, "comment",
                    <<"Multi-source Products",
                      Cardinality({i \in 1..Len(df) : df[i].source_count > 1})>>),
               Line(Sp4, "comment", <<>>)>>,
             Sp4)

ErrorInProcessing ==
    <<"E", "r", "r", "o", "r", " ", "i", "n", " ",
      "p", "r", "o", "c", "e", "s", "s", "i", "n", "g">>
FallbackRow ==
    [unified_name |-> ErrorInProcessing,
     source_products |-> <<"N", "/", "A">>,
     average_price |-> 0, price_variance |-> 0, confidence_level |-> 0,
     source_count |-> 0, sources |-> <<"N", "/", "A">>, category |-> "Error",
     min_price |-> 0, max_price |-> 0]

Written(path, content) == [csv_path |-> path, content |-> content]

\* _create_fallback_csv: the file it writes and the path it returns
_create_fallback_csv == Written(FallbackPath, ToCsv(<<FallbackRow>>))

\* lines 456-477: the normal report
WriteReport(df) ==
    Written(NormalPath, TextConcat(SummaryStats(df), ToCsv(df)))

\* a variant that stops at the first record that is no mapping
MappingRecordsUntilOther(items) ==
    SubSeq(items, 1,
           MinOf({i \in 1..Len(items) : items[i].ty # "dict"}
                     \cup {Len(items) + 1}) - 1)
\* line 365: the records that are mappings
MappingRecords(items) == SelectSeq(items, LAMBDA x : x.ty = "dict")
\* a variant that leaves out the records whose row raised
AppendRowsSkippingRaised(built) ==
    LET kept == SelectSeq(built, LAMBDA b : ~b.raised)
    IN  [raised |-> FALSE, rows |-> [i \in 1..Len(kept) |-> kept[i].row]]
\* line 440: rows.append(row), unless building a row raised
AppendRows(built) ==
    IF \E i \in 1..Len(built) : built[i].raised
    THEN [raised |-> TRUE, rows |-> <<>>]
    ELSE [raised |-> FALSE, rows |-> [i \in 1..Len(built) |-> built[i].row]]
RowsOfRecords(dicts) == AppendRows([i \in 1..Len(dicts) |-> BuildRow(dicts[i])])
\* lines 361-441: [raised, rows] for the items of the cluster list
BuildRows(items) == RowsOfRecords(MappingRecords(items))

\* the argument of _process_csv_output: an object with a raw attribute
\* (a TaskOutput) or a plain value; a value is a text [ty |-> "text", toks]
\* or a Python value
Carrier(raw) == [carrier |-> TRUE, raw |-> raw]
Plain(v) == [carrier |-> FALSE, raw |-> v]
TextV(toks) == [ty |-> "text", toks |-> toks]

\* lines 284-357: [raised, fallback, pg]
Recovered(r) == [raised |-> r.raised, fallback |-> FALSE, pg |-> r.pg]
ProductGroups(raw_content) ==
    IF raw_content.ty = "text"
    THEN Recovered(RecoverGroups(raw_content.toks))
    ELSE IF raw_content.ty = "dict"
    THEN [raised |-> FALSE, fallback |-> FALSE,
          pg |-> Get(raw_content, "unified_products", ListV(<<>>))]
    ELSE [raised |-> FALSE, fallback |-> TRUE, pg |-> Null]

\* lines 447-477: b is the outcome [raised, rows] of the loop
ReportOfRows(b) ==
    IF b.raised THEN _create_fallback_csv
    ELSE IF b.rows = <<>> THEN _create_fallback_csv
    ELSE WriteReport(SortRows(b.rows))

\* lines 355-477 once product_groups is known
ReportOf(pg) ==
    IF ~Truthy(pg) THEN _create_fallback_csv
    ELSE IF ~PyLen(pg).ok THEN _create_fallback_csv
    ELSE ReportOfRows(BuildRows(PyIter(pg).items))

\* lines 284-477: g is the outcome [raised, fallback, pg] of lines 284-353
ReportOfGroups(g) ==
    IF g.raised \/ g.fallback THEN _create_fallback_csv ELSE ReportOf(g.pg)

\* _process_csv_output: line 282 reads unified_products.raw before the
\* hasattr test, so an argument without that attribute raises inside the
\* try block and is answered by the handler of lines 479-484
_process_csv_output(arg) ==
    IF ~arg.carrier THEN _create_fallback_csv
    ELSE ReportOfGroups(ProductGroups(arg.raw))

(***************************************************************************)
(* Inputs of _process_csv_output                                           *)
(***************************************************************************)
Cluster(name, products, avg, conf, sources) ==
    DictV(<<Field("unified_name", name), Field("products", products),
            Field("average_price", avg), Field("confidence_level", conf),
            Field("sources", sources)>>)
\* the dict d without its key k
Without(d, k) == DictV(SelectSeq(d.fields, LAMBDA f : f.k # k))
\* the dict d with d[k] = v
With(d, k, v) ==
    DictV([i \in 1..Len(d.fields) |->
              IF d.fields[i].k = k THEN Field(k, v) ELSE d.fields[i]])

OneSource == ListV(<<StrV(<<"s">>)>>)
BareMembers(k) == ListV([i \in 1..k |-> StrV(<<"p">>)])

\* clusters that differ in the two sort keys and in their name
SortClusters ==
    {Cluster(StrV(<<n>>), BareMembers(k), Num(5500), Num(c), OneSource) :
        n \in {"A", "B"}, k \in {1, 3}, c \in {700000, 700040, 900000}}
SortLists == SeqsUpTo(SortClusters, MaxClusters)

\* members: a bare name, structured members with a price that coerces
\* (a number, a numeric string) or does not, without price, of another type
Priced(name, p) ==
    DictV(<<Field("name", StrV(<<name>>)), Field("price", p)>>)
MemberSet ==
    { StrV(<<"a">>),
      Priced("b", Num(6000)),
      Priced("c", Num(4000)),
      Priced("d", StrV(<<"0", ".", "6", "5">>)),
      Priced("e", StrV(<<"n", "/", "a">>)),
      DictV(<<Field("name", StrV(<<"f">>))>>),
      Null }
GroupAverages ==
    { Num(5500), Num(0), Num(0 - 100), StrV(<<"0", ".", "5">>), Null }
StatsClusters ==
    LET base(ms, g) == Cluster(StrV(<<"A">>), ListV(ms), g, Num(855000), OneSource)
    IN  {base(ms, g) : ms \in SeqsUpTo(MemberSet, MaxMembers), g \in GroupAverages}
            \cup {Without(base(ms, Null), "average_price") :
                      ms \in SeqsUpTo(MemberSet, MaxMembers)}

BaseCluster ==
    Cluster(StrV(<<"A">>), BareMembers(1), Num(5500), Num(855000), OneSource)
OddRecords ==
    { BaseCluster,
      Without(BaseCluster, "unified_name"),
      With(BaseCluster, "unified_name", Null),
      With(BaseCluster, "unified_name", StrV(<<>>)),
      Without(BaseCluster, "products"),
      With(BaseCluster, "products", Null),
      With(BaseCluster, "products", ListV(<<>>)),
      Without(BaseCluster, "confidence_level"),
      With(BaseCluster, "confidence_level", Null),
      With(BaseCluster, "confidence_level", StrV(<<"h", "i", "g", "h">>)),
      With(BaseCluster, "confidence_level", StrV(<<"8", "5">>)),
      With(BaseCluster, "confidence_level", Num(1500000)),
      With(BaseCluster, "confidence_level", Num(0 - 50000)),
      Without(BaseCluster, "sources"),
      With(BaseCluster, "sources", Null),
      With(BaseCluster, "sources", ListV(<<StrV(<<"s">>), StrV(<<"t">>)>>)),
      StrV(<<"x">>), Null, Num(Unit) }
OddLists == SeqsUpTo(OddRecords, 2)

\* clusters with a confidence of 80, just above 80 and rounding to 80, with
\* one member and with two
SummaryClusters ==
    {Cluster(StrV(<<"A">>), BareMembers(k), Num(5500), Num(c), OneSource) :
        k \in {1, 2}, c \in {800000, 800040, 800100}}
SummaryLists == SeqsUpTo(SummaryClusters, MaxClusters)

\* cluster lists with records that are no mappings in any position
SkipRecords ==
    { BaseCluster,
      Cluster(StrV(<<"B">>), BareMembers(2), Num(6000), Num(900000), OneSource),
      StrV(<<"x">>), Null }
SkipLists == SeqsUpTo(SkipRecords, MaxClusters)

\* clusters with a member whose price is the text nan, alone and next to
\* members priced with numbers
NanMembers ==
    { Priced("g", StrV(<<"n", "a", "n">>)),
      Priced("b", Num(6000)),
      Priced("c", Num(4000)) }
NanClusters ==
    {Cluster(StrV(<<"A">>), ListV(ms), Num(5500), Num(855000), OneSource) :
        ms \in SeqsUpTo(NanMembers, MaxMembers)}

\* unified names with keywords of no, one and several categories
CategoryNames ==
    { <<"2", "0", "2", "4", " ", "P", "r", "e", "s", "i", "d", "e",
      "n", "t", "i", "a", "l", " ", "E", "l", "e", "c", "t", "i",
      "o", "n", " ", "W", "i", "n", "n", "e", "r">>,
      <<"B", "i", "t", "c", "o", "i", "n", " ", "p", "r", "i", "c",
      "e", " ", "a", "b", "o", "v", "e", " ", "$", "1", "0", "0",
      "k">>,
      <<"N", "o", "b", "e", "l", " ", "P", "e", "a", "c", "e", " ",
      "P", "r", "i", "z", "e">>,
      <<"R", "a", "n", "d", "o", "m", " ", "t", "o", "p", "i", "c">>,
      <<"E", "l", "e", "c", "t", "i", "o", "n", " ", "m", "a", "r",
      "k", "e", "t">>,
      <<"N", "F", "L", " ", "e", "l", "e", "c", "t", "i", "o", "n">>,
      <<"N", "o", "b", "e", "l", " ", "s", "p", "o", "r", "t", "s">>,
      <<"S", "U", "P", "E", "R", " ", "B", "O", "W", "L", " ", "C",
      "R", "Y", "P", "T", "O">>,
      <<"n", "o", "b", "e", "l", " ", "P", "o", "l", "i", "t", "i",
      "c", "s", " ", "F", "1">>,
      <<"C", "h", "a", "m", "p", "i", "o", "n", "s", " ", "L", "e",
      "a", "g", "u", "e">>,
      <<"B", "i", "t", " ", "c", "o", "i", "n">> }

Payload(L) == DictV(<<Field("unified_products", ListV(L))>>)
Prose == Tok("prose")

\* the forms in which the analysis result reaches _process_csv_output
MainForms(L) ==
    { Carrier(Payload(L)), Carrier(TextV(DumpsObject(Payload(L), "nl4"))) }
AllForms(L) ==
    MainForms(L)
        \cup { Carrier(TextV(DumpsObject(Payload(L), "nl2"))),
               Carrier(TextV(DumpsObject(Payload(L), ""))),
               Carrier(TextV(<<Prose>> \o DumpsObject(Payload(L), "") \o <<Prose>>)),
               Carrier(ListV(L)),
               Plain(Payload(L)),
               Plain(TextV(DumpsObject(Payload(L), "nl4"))),
               Plain(ListV(L)) }
OtherPayloads ==
    { Carrier(Null), Plain(Null), Carrier(DictV(<<>>)),
      Carrier(DictV(<<Field("unified_products", Null)>>)),
      Carrier(DictV(<<Field("unified_products", Num(5 * Unit))>>)),
      Carrier(DictV(<<Field("unified_products", StrV(<<"x">>))>>)),
      Carrier(DictV(<<Field("unified_products", BaseCluster)>>)),
      Carrier(TextV(<<>>)), Carrier(TextV(<<Prose, Prose>>)),
      Carrier(TextV(<<Tok("{"), Tok("}")>>)) }

\* clusters of the texts from which the cluster list has to be recovered
RecoveryClusters ==
    { BaseCluster,
      Cluster(StrV(<<"B">>), BareMembers(1), Num(6000), Num(900000), OneSource),
      Without(BaseCluster, "average_price") }
RecoveryLists == SeqsUpTo(RecoveryClusters, MaxClusters)

\* the analysis object with the cluster list as its only field, behind a
\* scalar field, behind a field that holds an object, and in front of one
Meta == DictV(<<Field("n", Num(Unit))>>)
KeyPlacements(L) ==
    { Payload(L),
      DictV(<<Field("status", StrV(<<"o", "k">>)),
              Field("unified_products", ListV(L))>>),
      DictV(<<Field("meta", Meta), Field("unified_products", ListV(L))>>),
      DictV(<<Field("unified_products", ListV(L)), Field("meta", Meta)>>) }

\* the text t without its last token
Truncated(t) == SubSeq(t, 1, Len(t) - 1)
\* the text t with a word put behind its first token
Corrupted(t) == <<t[1], Prose>> \o Tail(t)
\* the text t with the number behind every key k replaced by the run of
\* digits and points run
WithRun(t, k, run) ==
    [i \in 1..Len(t) |->
        IF i > 1 /\ KeyAt(t, i - 1, k) /\ t[i].t = "num" THEN NumTok(run)
        ELSE t[i]]

\* what the analysis collaborator may answer: the object inside prose, and
\* answers that are cut, lack the object, or hold text that is not JSON
RecoveryTexts(L) ==
    {Carrier(TextV(<<Prose>> \o Dumps(d) \o <<Prose>>)) : d \in KeyPlacements(L)}
        \cup { Carrier(TextV(<<Prose>> \o Truncated(Dumps(Payload(L))))),
               Carrier(TextV(Dumps(ListV(L)) \o <<Prose>>)),
               Carrier(TextV(Corrupted(Dumps(Payload(L))))),
               Carrier(TextV(WithRun(Dumps(Payload(L)), "confidence_level",
                                     <<"1", "5", "0", ".">>))),
               Carrier(TextV(WithRun(Dumps(Payload(L)), "average_price",
                                     <<"1", ".", "2", ".", "3">>))),
               Carrier(TextV(WithRun(Dumps(Payload(L)), "confidence_level",
                                     <<".">>))) }

NoPath == "none"

InitCsv ==
    /\ pc = "csv_ready"
    /\ \/ \E L \in SortLists : unified_products \in MainForms(L)
       \/ \E c \in StatsClusters : unified_products \in MainForms(<<c>>)
       \/ \E L \in OddLists : unified_products \in AllForms(L)
       \/ \E L \in RecoveryLists : unified_products \in RecoveryTexts(L)
       \/ \E L \in SummaryLists : unified_products \in MainForms(L)
       \/ \E L \in SkipLists : unified_products \in MainForms(L)
       \/ \E c \in NanClusters : unified_products \in MainForms(<<c>>)
       \/ \E n \in CategoryNames :
              unified_products
                  \in MainForms(<<With(BaseCluster, "unified_name", StrV(n))>>)
       \/ unified_products \in OtherPayloads
    /\ files = [p \in Paths |-> NoFile]
    /\ written = {}
    /\ csv_path = NoPath
    /\ price_text = None
    /\ price = None
    /\ stage = None
    /\ invoked = {}

\* a call of _process_csv_output
ProcessCsvOutput ==
    /\ pc = "csv_ready"
    /\ \E r \in {_process_csv_output(unified_products)} :
           /\ files' = [files EXCEPT ![r.csv_path] = r.content]
           /\ written' = written \cup {r.csv_path}
           /\ csv_path' = r.csv_path
    /\ pc' = "csv_done"
    /\ UNCHANGED <<price_text, price, unified_products, stage, invoked>>

NextCsv == ProcessCsvOutput
SpecCsv == InitCsv /\ [][NextCsv]_vars

(***************************************************************************)
(* main.py : the flow collect_data -> analyze_products -> generate_csv     *)
(*   A collaborator call (Task.execute_sync) either returns a result or    *)
(*   raises: outcome = [ok, result].  A stage returns                      *)
(*   [status, unified_products, csv_path, calls, report, escaped]:         *)
(*   calls are the collaborators it invoked, report the file it wrote,     *)
(*   escaped whether an exception left the stage.                          *)
(***************************************************************************)
NoReport == Written(NoPath, NoFile)
StageResult(status, payload, path, calls, report) ==
    [status |-> status, unified_products |-> payload, csv_path |-> path,
     calls |-> calls, report |-> report, escaped |-> FALSE]
Pending == StageResult("pending", None, NoPath, {}, NoReport)
EmptyList == Plain(ListV(<<>>))

\* collect_data, lines 150-156
collect_data(outcome) ==
    IF outcome.ok
    THEN StageResult("success", None, NoPath, {"collection"}, NoReport)
    ELSE StageResult("failed", None, NoPath, {"collection"}, NoReport)

\* analyze_products, lines 163-165 and 213-219
analyze_products_noskip(context, outcome) ==
    IF outcome.ok
    THEN StageResult("success", outcome.result, NoPath, {"analysis"}, NoReport)
    ELSE StageResult("failed", EmptyList, NoPath, {"analysis"}, NoReport)
analyze_products(context, outcome) ==
    IF context.status # "success"
    THEN StageResult("skipped", EmptyList, NoPath, {}, NoReport)
    ELSE IF outcome.ok
    THEN StageResult("success", outcome.result, NoPath, {"analysis"}, NoReport)
    ELSE StageResult("failed", EmptyList, NoPath, {"analysis"}, NoReport)

\* lines 267-270: r is what _process_csv_output wrote and returned
Processed(r) ==
    StageResult("success", None, r.csv_path,
                {"csv_agent", "_process_csv_output"}, r)

\* generate_csv, lines 226-228 and 263-273
generate_csv(context, outcome) ==
    IF context.status # "success"
    THEN StageResult("skipped", None, NoPath, {}, NoReport)
    ELSE IF ~outcome.ok
    THEN StageResult("failed", None, NoPath, {"csv_agent"}, NoReport)
    ELSE Processed(_process_csv_output(context.unified_products))

FlowFailed ==
    <<"F", "l", "o", "w", " ", "e", "x", "e", "c", "u", "t", "i", "o", "n", " ",
      "f", "a", "i", "l", "e", "d">>
ErrorRow ==
    [unified_name |-> FlowFailed,
     source_products |-> <<"s", "t", "r", "(", "e", ")">>,
     average_price |-> 0, price_variance |-> 0, confidence_level |-> 0,
     source_count |-> 0, sources |-> <<"E", "r", "r", "o", "r">>,
     category |-> "Error", min_price |-> 0, max_price |-> 0]

\* run_flow, lines 541-577: kickoff is [raised, result], result the return
\* value of the last stage; [csv_path, report]
run_flow(kickoff) ==
    IF kickoff.raised
    THEN [csv_path |-> ErrorPath, report |-> Written(ErrorPath, ToCsv(<<ErrorRow>>))]
    ELSE IF kickoff.result.csv_path # NoPath
    THEN [csv_path |-> kickoff.result.csv_path, report |-> NoReport]
    ELSE [csv_path |-> FallbackPath, report |-> NoReport]

\* the files after a report was written
WriteFile(fs, report) ==
    IF report.csv_path = NoPath THEN fs
    ELSE [fs EXCEPT ![report.csv_path] = report.content]
WrittenPaths(w, report) ==
    IF report.csv_path = NoPath THEN w ELSE w \cup {report.csv_path}

\* what the analysis collaborator may return: a TaskOutput whose raw text
\* holds the cluster list, or text without any
FlowClusters ==
    { BaseCluster,
      Cluster(StrV(<<"B">>), ListV(<<Priced("b", Num(6000))>>),
              Num(5000), Num(900000), OneSource),
      With(BaseCluster, "confidence_level", Null),
      Without(BaseCluster, "products"),
      StrV(<<"x">>) }
FlowPayloads ==
    {Carrier(TextV(DumpsObject(Payload(L), ws))) :
        L \in SeqsUpTo(FlowClusters, 2), ws \in {"nl4", ""}}
        \cup {Carrier(TextV(<<Prose>>))}
Outcomes(results) ==
    {[ok |-> FALSE, result |-> None]} \cup {[ok |-> TRUE, result |-> r] : r \in results}

InitFlow ==
    /\ pc = "flow_start"
    /\ stage = [collect |-> Pending, analyze |-> Pending, generate |-> Pending]
    /\ invoked = {}
    /\ files = [p \in Paths |-> NoFile]
    /\ written = {}
    /\ csv_path = NoPath
    /\ unified_products = None
    /\ price_text = None
    /\ price = None

CollectData ==
    /\ pc = "flow_start"
    /\ \E outcome \in Outcomes({None}) :
           \E r \in {collect_data(outcome)} :
               /\ stage' = [stage EXCEPT !.collect = r]
               /\ invoked' = invoked \cup r.calls
    /\ pc' = "collected"
    /\ UNCHANGED <<price_text, price, unified_products, files, written, csv_path>>

AnalyzeProducts ==
    /\ pc = "collected"
    /\ \E outcome \in Outcomes(FlowPayloads) :
           \E r \in {analyze_products(stage.collect, outcome)} :
               /\ stage' = [stage EXCEPT !.analyze = r]
               /\ invoked' = invoked \cup r.calls
    /\ pc' = "analyzed"
    /\ UNCHANGED <<price_text, price, unified_products, files, written, csv_path>>

GenerateCsv ==
    /\ pc = "analyzed"
    /\ \E outcome \in Outcomes({None}) :
           \E r \in {generate_csv(stage.analyze, outcome)} :
               /\ stage' = [stage EXCEPT !.generate = r]
               /\ invoked' = invoked \cup r.calls
               /\ files' = WriteFile(files, r.report)
               /\ written' = WrittenPaths(written, r.report)
    /\ pc' = "generated"
    /\ UNCHANGED <<price_text, price, unified_products, csv_path>>

\* kickoff returned the result of the last stage
RunFlowReturn ==
    /\ pc = "generated"
    /\ \E r \in {run_flow([raised |-> FALSE, result |-> stage.generate])} :
           /\ csv_path' = r.csv_path
           /\ files' = WriteFile(files, r.report)
           /\ written' = WrittenPaths(written, r.report)
    /\ pc' = "flow_done"
    /\ UNCHANGED <<price_text, price, unified_products, stage, invoked>>

\* kickoff itself raised (the flow framework, outside the stage methods)
KickoffRaises ==
    /\ pc = "flow_start"
    /\ \E r \in {run_flow([raised |-> TRUE, result |-> Pending])} :
           /\ csv_path' = r.csv_path
           /\ files' = WriteFile(files, r.report)
           /\ written' = WrittenPaths(written, r.report)
    /\ pc' = "flow_done"
    /\ UNCHANGED <<price_text, price, unified_products, stage, invoked>>

NextFlow ==
    \/ CollectData
    \/ AnalyzeProducts
    \/ GenerateCsv
    \/ RunFlowReturn
    \/ KickoffRaises
SpecFlow == InitFlow /\ [][NextFlow]_vars

(***************************************************************************)
(* Properties of _parse_price                                              *)
(***************************************************************************)
HasDigit(s) == \E i \in 1..Len(s) : IsDigit(s[i])

\* C5: _parse_price never raises and its result is always within
\* [0.01, 0.99]; when the input has no digit run, or is not a string (the
\* internal exception), the result is exactly 0.5.
C5_PriceBounded ==
    pc = "price_done" =>
        /\ price.status = "returned"
        /\ DecLe(Dec(1, 2), price.value)
        /\ DecLe(price.value, Dec(99, 2))
        /\ (price_text.kind # "str" \/ ~HasDigit(price_text.s))
               => DecEq(price.value, Dec(50, 2))

\* a negative number: '-5' is read as 5, i.e. 5 percent
C5_Witness ==
    /\ pc = "price_done"
    /\ price_text = Str(<<"-", "5">>)
    /\ DecEq(price.value, Dec(5, 2))

RECURSIVE WeightedSum(_, _, _)
\* the number written by the digits s[lo..hi]
WeightedSum(s, lo, hi) ==
    IF hi < lo THEN 0
    ELSE DigitVal(s[hi]) + 10 * WeightedSum(s, lo, hi - 1)

\* the first run of digits with optional decimal point of t, as a decimal
C6_FirstRun(t) ==
    LET i == CHOOSE j \in 1..Len(t) :
                 IsDigit(t[j]) /\ \A h \in 1..(j - 1) : ~IsDigit(t[h])
        a == CHOOSE j \in i..Len(t) :
                 /\ \A h \in i..j : IsDigit(t[h])
                 /\ (j = Len(t) \/ ~IsDigit(t[j + 1]))
        b == IF a < Len(t) /\ t[a + 1] = "."
             THEN CHOOSE j \in (a + 1)..Len(t) :
                      /\ \A h \in (a + 2)..j : IsDigit(t[h])
                      /\ (j = Len(t) \/ ~IsDigit(t[j + 1]))
             ELSE a
    IN  IF b = a THEN Dec(WeightedSum(t, i, a), 0)
        ELSE Dec(WeightedSum(t, i, a) * Pow10(b - a - 1)
                     + WeightedSum(t, a + 2, b), b - a - 1)

C6_Clamped(v, r) ==
    /\ DecLt(v, Dec(1, 2)) => DecEq(r, Dec(1, 2))
    /\ DecLt(Dec(99, 2), v) => DecEq(r, Dec(99, 2))
    /\ (DecLe(Dec(1, 2), v) /\ DecLe(v, Dec(99, 2))) => DecEq(r, v)

\* C6: with n the first run of digits with optional decimal point after
\* removing '$', '%' and the cent marker, the result is clamp(n/100) if the
\* input contained a percent sign or n > 1 and clamp(n) otherwise; '$0.65',
\* '65%' and '65<cent>' all yield 0.65, '0.45' yields 0.45, 'invalid' 0.5.
C6_PriceValue ==
    (pc = "price_done" /\ price_text.kind = "str") =>
        LET s == price_text.s
            t == StripMarkers(s)
            r == price.value
        IN  /\ ~HasDigit(t) => DecEq(r, Dec(5, 1))
            /\ HasDigit(t) =>
                   LET n == C6_FirstRun(t)
                   IN  IF "%" \in {s[i] : i \in 1..Len(s)} \/ DecLt(Dec(1, 0), n)
                       THEN C6_Clamped(Dec(n.num, n.k + 2), r)
                       ELSE C6_Clamped(n, r)
            /\ s = <<"$", "0", ".", "6", "5">> => DecEq(r, Dec(65, 2))
            /\ s = <<"6", "5", "%">> => DecEq(r, Dec(65, 2))
            /\ s = <<"6", "5", CentA, CentC>> => DecEq(r, Dec(65, 2))
            /\ s = <<"0", ".", "4", "5">> => DecEq(r, Dec(45, 2))
            /\ s = <<"i", "n", "v", "a", "l", "i", "d">> => DecEq(r, Dec(5, 1))

C6_Witness ==
    /\ pc = "price_done"
    /\ price_text = Str(<<"6", "5", CentA, CentC>>)
    /\ DecEq(price.value, Dec(65, 2))

(***************************************************************************)
(* main.py line 593, test_flow.py line 66: pd.read_csv(path, comment='#')  *)
(*   a line that begins with '#' is ignored; elsewhere the text from '#'   *)
(*   on is cut, which leaves the leading blanks as the only field; the     *)
(*   first line kept gives the column names; behind the second kept line a *)
(*   line with more fields than the line before it raises ParserError.     *)
(*   A name is [lead, name]: the characters in front of it in its field,   *)
(*   and the name.                                                         *)
(***************************************************************************)
ColumnName(lead, name) == [lead |-> lead, name |-> name]
LineFields(line) ==
    IF line.kind = "header"
    THEN [i \in 1..Len(line.cells) |->
             ColumnName(IF i = 1 THEN line.lead ELSE <<>>, line.cells[i])]
    ELSE IF line.kind = "row"
    THEN [i \in 1..Len(Columns) |-> ColumnName(<<>>, "")]
    ELSE <<ColumnName(line.lead, "")>>
ReadCsv(content) ==
    LET kept == SelectSeq(content.lines,
                          LAMBDA l : ~(l.kind = "comment" /\ l.lead = <<>>))
        n(i) == Len(LineFields(kept[i]))
    IN  IF kept = <<>> \/ \E i \in 3..Len(kept) : n(i) > n(i - 1)
        THEN [raised |-> TRUE, columns |-> <<>>, nrows |-> 0]
        ELSE [raised |-> FALSE, columns |-> LineFields(kept[1]),
              nrows |-> Len(kept) - 1]
HasColumn(table, name) ==
    \E i \in 1..Len(table.columns) : table.columns[i] = ColumnName(<<>>, name)

(***************************************************************************)
(* Properties of the flow                                                  *)
(***************************************************************************)
\* C1: whatever stages succeed or fail, run_flow returns one of the three
\* CSV paths and a file at exactly that path was written during the run.
C1_AlwaysWritesOutput ==
    pc = "flow_done" => (csv_path \in Paths /\ csv_path \in written)

StageNames == {"collect", "analyze", "generate"}

RowsOf(content) ==
    LET ls == SelectSeq(content.lines, LAMBDA l : l.kind = "row")
    IN  [i \in 1..Len(ls) |-> ls[i].cells[1]]

NumericZero(row) ==
    /\ row.average_price = 0 /\ row.price_variance = 0
    /\ row.confidence_level = 0 /\ row.source_count = 0
    /\ row.min_price = 0 /\ row.max_price = 0

\* a cluster as the interface describes it
ValidMember(m) ==
    \/ m.ty = "str"
    \/ /\ m.ty = "dict"
       /\ HasKey(m, "name") /\ Get(m, "name", Null).ty = "str"
       /\ HasKey(m, "price") => Get(m, "price", Null).ty = "num"
ValidCluster(c) ==
    /\ c.ty = "dict"
    /\ \A k \in {"unified_name", "products", "average_price",
                 "confidence_level", "sources"} : HasKey(c, k)
    /\ Get(c, "unified_name", Null).ty = "str"
    /\ Get(c, "products", Null).ty = "list"
    /\ \A i \in 1..Len(Get(c, "products", Null).items) :
           ValidMember(Get(c, "products", Null).items[i])
    /\ Get(c, "average_price", Null).ty = "num"
    /\ Get(c, "confidence_level", Null).ty = "num"
    /\ Get(c, "sources", Null).ty = "list"
    /\ \A i \in 1..Len(Get(c, "sources", Null).items) :
           Get(c, "sources", Null).items[i].ty = "str"

\* the mapping a payload stands for: itself, or what its clean JSON text says
MappingOf(raw) ==
    IF raw.ty = "text"
    THEN IF JsonLoads(raw.toks).ok THEN JsonLoads(raw.toks).val ELSE Null
    ELSE raw
CleanPayload(v) ==
    /\ v.ty = "dict"
    /\ HasKey(v, "unified_products")
    /\ Get(v, "unified_products", Null).ty = "list"
    /\ Get(v, "unified_products", Null).items # <<>>
    /\ \A i \in 1..Len(Get(v, "unified_products", Null).items) :
           ValidCluster(Get(v, "unified_products", Null).items[i])

\* C3: a clean JSON string, an already parsed mapping and a carrier object
\* whose raw field holds the text or the mapping all give, for a non-empty
\* list of valid clusters, the normal report with one row per cluster.
C3_ThreeForms ==
    (pc = "csv_done" /\ CleanPayload(MappingOf(unified_products.raw))) =>
        /\ csv_path = NormalPath
        /\ Len(RowsOf(files[NormalPath]))
               = Len(Get(MappingOf(unified_products.raw), "unified_products",
                         Null).items)

\* the inputs from which no cluster row can come: the list is missing or
\* empty, or none of its records is a mapping
NoClusterRecord(arg) ==
    /\ arg.carrier
    /\ arg.raw.ty = "dict"
    /\ LET pg == Get(arg.raw, "unified_products", ListV(<<>>))
       IN  pg.ty = "list" /\ \A i \in 1..Len(pg.items) : pg.items[i].ty # "dict"

\* C4: _process_csv_output never raises and never leaves an empty file: the
\* file at the returned path was written by the call, has the column header
\* (with unified_name and confidence_level) and at least one data row; when
\* no cluster row is produced it is the fallback report, one row of category
\* 'Error' with all numeric fields 0.
C4_NeverEmpty ==
    pc = "csv_done" =>
        /\ csv_path \in {NormalPath, FallbackPath}
        /\ csv_path \in written
        /\ files[csv_path].exists
        /\ ~ReadCsv(files[csv_path]).raised
        /\ HasColumn(ReadCsv(files[csv_path]), "unified_name")
        /\ HasColumn(ReadCsv(files[csv_path]), "confidence_level")
        /\ ReadCsv(files[csv_path]).nrows >= 1
        /\ (NoClusterRecord(unified_products) \/ csv_path = FallbackPath) =>
               /\ csv_path = FallbackPath
               /\ Len(RowsOf(files[FallbackPath])) = 1
               /\ RowsOf(files[FallbackPath])[1].category = "Error"
               /\ NumericZero(RowsOf(files[FallbackPath])[1])

\* the rows built from the input, in input order
InputRows(arg) == BuildRows(PyIter(ProductGroups(arg.raw).pg).items).rows

InjectionsOf(n) ==
    {f \in [1..n -> 1..n] : \A i, j \in 1..n : f[i] = f[j] => i = j}
InjectionTable == [n \in 0..MaxClusters |-> InjectionsOf(n)]
Injections(n) == IF n <= MaxClusters THEN InjectionTable[n] ELSE InjectionsOf(n)
SortKeys(rows) ==
    [i \in 1..Len(rows) |-> <<rows[i].confidence_level, rows[i].source_count>>]

\* C7: the rows of the normal report are ordered by confidence_level
\* descending, then source_count descending, rows equal on both keys keep
\* their input order, and the rows are a permutation of the rows built from
\* the input; [90, 70, 70] with counts [1, 3, 1] come out as 90/1, 70/3, 70/1.
C7_Sorted ==
    (pc = "csv_done" /\ csv_path = NormalPath) =>
        LET out == RowsOf(files[NormalPath])
            in == InputRows(unified_products)
            n == Len(out)
        IN  /\ Len(in) = n
            /\ \A i, j \in 1..n :
                   i < j =>
                       \/ out[i].confidence_level > out[j].confidence_level
                       \/ /\ out[i].confidence_level = out[j].confidence_level
                          /\ out[i].source_count >= out[j].source_count
            /\ \E f \in Injections(n) :
                   /\ \A i \in 1..n : out[i] = in[f[i]]
                   /\ \A i, j \in 1..n :
                          (i < j /\ SortKeys(out)[i] = SortKeys(out)[j])
                              => f[i] < f[j]
            /\ (\E f \in Injections(n) :
                    [i \in 1..n |-> SortKeys(in)[f[i]]]
                        = <<<<9000, 1>>, <<7000, 3>>, <<7000, 1>>>>)
                   => SortKeys(out) = <<<<9000, 1>>, <<7000, 3>>, <<7000, 1>>>>

\* the clusters 70/1, 70/3, 90/1 in this order come out as 90/1, 70/3, 70/1
C7_Witness ==
    /\ pc = "csv_done"
    /\ csv_path = NormalPath
    /\ SortKeys(InputRows(unified_products))
           = <<<<7000, 1>>, <<7000, 3>>, <<9000, 1>>>>
    /\ SortKeys(RowsOf(files[NormalPath]))
           = <<<<9000, 1>>, <<7000, 3>>, <<7000, 1>>>>

FirstChar(line) ==
    IF line.lead # <<>> THEN line.lead[1]
    ELSE IF line.kind = "comment" THEN "#"
    ELSE "\""

\* C8: the normal report is a summary block in which every line begins with
\* '#', immediately followed by the header row made of exactly the 10 column
\* names in the fixed order with nothing in front of it, then the data rows.
C8_ReportLayout ==
    (pc = "csv_done" /\ csv_path = NormalPath) =>
        LET ls == files[NormalPath].lines
        IN  \E h \in 1..Len(ls) :
                /\ h > 1
                /\ \A i \in 1..(h - 1) : ls[i].kind = "comment" /\ FirstChar(ls[i]) = "#"
                /\ ls[h].kind = "header"
                /\ ls[h].lead = <<>>
                /\ ls[h].cells = Columns
                /\ \A i \in (h + 1)..Len(ls) : ls[i].kind = "row" /\ ls[i].lead = <<>>
                /\ Len(ls) > h

\* the cluster list of a carrier argument
ClusterList(arg) ==
    IF arg.carrier /\ ProductGroups(arg.raw).pg.ty = "list"
    THEN ProductGroups(arg.raw).pg.items
    ELSE <<>>

\* the member prices that coerce to a number, in member order
CoerciblePrices(c) ==
    LET ms == Get(c, "products", ListV(<<>>))
        priced(m) == /\ m.ty = "dict"
                     /\ HasKey(m, "price")
                     /\ \/ Get(m, "price", Null).ty = "num"
                        \/ /\ Get(m, "price", Null).ty = "str"
                           /\ \/ PyFloat(Get(m, "price", Null).s).ok
                              \/ IsNaNText(Get(m, "price", Null).s)
        value(m) == IF Get(m, "price", Null).ty = "num"
                    THEN Get(m, "price", Null).n
                    ELSE IF IsNaNText(Get(m, "price", Null).s) THEN NaN
                    ELSE PyFloat(Get(m, "price", Null).s).n
    IN  IF ms.ty # "list" THEN <<>>
        ELSE LET ps == SelectSeq(ms.items, priced)
             IN  [i \in 1..Len(ps) |-> value(ps[i])]

\* m is the mean of xs rounded to the unit
IsMean(m, xs) ==
    LET d == m * Len(xs) - SumSeq(xs)
    IN  2 * d <= Len(xs) /\ 2 * (0 - d) <= Len(xs)
\* v is the sample standard deviation of xs rounded to the unit:
\* v - 1/2 <= sqrt(A / B) <= v + 1/2 with A / B the sample variance
IsSampleStd(v, xs) ==
    LET n == Len(xs)
        S == SumSeq(xs)
        A == SumSeq([i \in 1..n |-> (n * xs[i] - S) * (n * xs[i] - S)])
        B == n * n * (n - 1)
    IN  /\ v >= 0
        /\ (v = 0 \/ (2 * v - 1) * (2 * v - 1) * B <= 4 * A)
        /\ 4 * A <= (2 * v + 1) * (2 * v + 1) * B

C9_StatsFromPrices(row, c) ==
    LET xs == CoerciblePrices(c)
        ms == Get(c, "products", ListV(<<>>)).items
    IN  /\ IsMean(row.average_price, xs)
        /\ row.min_price = MinSeq(xs)
        /\ row.max_price = MaxSeq(xs)
        /\ IF Len(xs) = 1 THEN row.price_variance = 0
           ELSE IsSampleStd(row.price_variance, xs)
        /\ row.source_count = Len(ms)
        /\ \A i \in 1..Len(ms) :
               (ms[i].ty = "dict" /\ HasKey(ms[i], "name"))
                   => Contains(row.source_products, Get(ms[i], "name", Null).s)
        /\ xs = <<6000, 4000>> =>
               /\ row.average_price = 5000
               /\ row.min_price = 4000
               /\ row.max_price = 6000
               /\ row.source_count = Len(ms)

\* C9: the statistics of a cluster with at least one member price that
\* coerces to a number are the mean, the extremes and the sample standard
\* deviation (0 for a single price) of exactly those prices; a member whose
\* price does not coerce, and the group average_price, contribute nothing,
\* and that member is still listed and counted; [0.6, 0.4] gives 0.5, 0.4,
\* 0.6 and source_count 2.
C9_MemberPriceStats ==
    (pc = "csv_done" /\ csv_path = NormalPath
        /\ Len(ClusterList(unified_products)) = 1
        /\ ClusterList(unified_products)[1].ty = "dict"
        /\ CoerciblePrices(ClusterList(unified_products)[1]) # <<>>
        /\ \A x \in {CoerciblePrices(ClusterList(unified_products)[1])} :
               \A i \in 1..Len(x) : x[i] # NaN) =>
        /\ Len(RowsOf(files[NormalPath])) = 1
        /\ C9_StatsFromPrices(RowsOf(files[NormalPath])[1],
                              ClusterList(unified_products)[1])

\* prices 0.6 and 0.4 next to a member whose price does not coerce and a
\* group average of 0.55
C9_Witness ==
    /\ pc = "csv_done"
    /\ csv_path = NormalPath
    /\ Len(ClusterList(unified_products)) = 1
    /\ Get(ClusterList(unified_products)[1], "products", Null)
           = ListV(<<Priced("b", Num(6000)), Priced("e", StrV(<<"n", "/", "a">>)),
                     Priced("c", Num(4000))>>)
    /\ Get(ClusterList(unified_products)[1], "average_price", Null) = Num(5500)
    /\ RowsOf(files[NormalPath])[1].average_price = 5000
    /\ RowsOf(files[NormalPath])[1].price_variance = 1414
    /\ RowsOf(files[NormalPath])[1].source_count = 3

\* a cluster that is well formed apart from its prices
WellFormedApartFromPrices(c) ==
    /\ c.ty = "dict"
    /\ Get(c, "unified_name", Null).ty = "str"
    /\ Get(c, "products", Null).ty = "list"
    /\ Get(c, "confidence_level", Null).ty = "num"
    /\ Get(c, "sources", Null).ty = "list"

\* C10: a cluster without any individual member price, whatever value or
\* type its average_price has (absent included), still yields a complete
\* row: average, minimum and maximum are the group average and the variance
\* is 0 if the group average is > 0, and all four are 0 otherwise.
C10_GroupAverageFallback ==
    (pc = "csv_done"
        /\ Len(ClusterList(unified_products)) = 1
        /\ WellFormedApartFromPrices(ClusterList(unified_products)[1])
        /\ CoerciblePrices(ClusterList(unified_products)[1]) = <<>>) =>
        LET g == Get(ClusterList(unified_products)[1], "average_price", Num(0))
            v == IF g.ty = "num" /\ g.n > 0 THEN g.n ELSE 0
        IN  /\ csv_path = NormalPath
            /\ Len(RowsOf(files[NormalPath])) = 1
            /\ RowsOf(files[NormalPath])[1].average_price = v
            /\ RowsOf(files[NormalPath])[1].min_price = v
            /\ RowsOf(files[NormalPath])[1].max_price = v
            /\ RowsOf(files[NormalPath])[1].price_variance = 0

(***************************************************************************)
(* Properties of the recovery of the cluster list from text                *)
(***************************************************************************)
\* the token ranges of t that are the text of a JSON object with the key
\* unified_products
EmbeddedObjects(t) ==
    {e \in (1..Len(t)) \X (1..Len(t)) :
        /\ e[1] < e[2]
        /\ t[e[1]].t = "{"
        /\ t[e[2]].t = "}"
        /\ JsonLoads(SubSeq(t, e[1], e[2])).ok
        /\ JsonLoads(SubSeq(t, e[1], e[2])).val.ty = "dict"
        /\ HasKey(JsonLoads(SubSeq(t, e[1], e[2])).val, "unified_products")}

\* t is one clean JSON object with the key unified_products inside prose
OneObjectInProse(t) ==
    /\ Cardinality(EmbeddedObjects(t)) = 1
    /\ \A e \in EmbeddedObjects(t) :
           \A i \in 1..Len(t) : (i < e[1] \/ i > e[2]) => t[i].t = "prose"

\* C11: for a text that holds exactly one clean, balanced JSON object with
\* the key unified_products inside prose, the recovered cluster list is that
\* object's unified_products list, wherever the key sits among its fields.
C11_BracketExtraction ==
    (pc = "csv_done" /\ unified_products.raw.ty = "text"
        /\ OneObjectInProse(unified_products.raw.toks)) =>
        \A e \in EmbeddedObjects(unified_products.raw.toks) :
            RecoverGroups(unified_products.raw.toks)
                = [raised |-> FALSE,
                   pg |-> Get(JsonLoads(SubSeq(unified_products.raw.toks,
                                               e[1], e[2])).val,
                              "unified_products", Null)]

\* the positions of the keys k of t that are followed by a quoted string
\* (kind "str") or by a run of digits and points (kind "num")
MatchPositions(t, k, kind) ==
    {i \in 1..Len(t) :
        /\ KeyAt(t, i, k)
        /\ SkipWs(t, i + 1) <= Len(t)
        /\ t[SkipWs(t, i + 1)].t = kind
        /\ kind = "num" => DigitDotPrefix(t[SkipWs(t, i + 1)].c) # <<>>}
\* the n-th position of S in increasing order
NthPosition(S, n) == CHOOSE i \in S : Cardinality({j \in S : j < i}) = n - 1
\* the text captured by the n-th match
NthMatch(t, k, kind, n) ==
    LET c == t[SkipWs(t, NthPosition(MatchPositions(t, k, kind), n) + 1)].c
    IN  IF kind = "num" THEN DigitDotPrefix(c) ELSE c
\* the value of the n-th number match of key k, 0 when there are fewer
NthNumber(t, k, n) ==
    IF n <= Cardinality(MatchPositions(t, k, "num"))
    THEN PyFloat(NthMatch(t, k, "num", n)).n
    ELSE 0
\* every number match that is paired with a name is the text of a number
RunsAreNumbers(t) ==
    \A k \in {"average_price", "confidence_level"} :
        \A n \in 1..Cardinality(MatchPositions(t, "unified_name", "str")) :
            n <= Cardinality(MatchPositions(t, k, "num"))
                => PyFloat(NthMatch(t, k, "num", n)).ok
\* no key marker, no matching closing brace, or a substring that does not parse
ScrapingCase(t) ==
    \/ \A i \in 1..Len(t) : ~KeyAt(t, i, "unified_products")
    \/ BraceScan(t, JsonStart(t), 0) = 0
    \/ ~JsonLoads(SubSeq(t, JsonStart(t), BraceScan(t, JsonStart(t), 0))).ok

\* C12: when no key marker is found, no matching closing brace is found or
\* the extracted substring does not parse, the recovered list has one
\* synthetic cluster per unified_name match, in order: the i-th has the i-th
\* name, that name as its single member, the source 'extracted', and the
\* i-th price and confidence matches, 0 where there are fewer matches.
C12_FieldScraping ==
    (pc = "csv_done" /\ unified_products.raw.ty = "text"
        /\ ScrapingCase(unified_products.raw.toks)
        /\ RunsAreNumbers(unified_products.raw.toks)) =>
        LET t == unified_products.raw.toks
            r == RecoverGroups(t)
            n == Cardinality(MatchPositions(t, "unified_name", "str"))
        IN  /\ ~r.raised
            /\ r.pg.ty = "list"
            /\ Len(r.pg.items) = n
            /\ \A i \in 1..n :
                   /\ r.pg.items[i].ty = "dict"
                   /\ Len(r.pg.items[i].fields) = 5
                   /\ Get(r.pg.items[i], "unified_name", Null)
                          = StrV(NthMatch(t, "unified_name", "str", i))
                   /\ Get(r.pg.items[i], "products", Null)
                          = ListV(<<StrV(NthMatch(t, "unified_name", "str", i))>>)
                   /\ Get(r.pg.items[i], "sources", Null)
                          = ListV(<<StrV(<<"e", "x", "t", "r", "a", "c", "t",
                                           "e", "d">>)>>)
                   /\ Get(r.pg.items[i], "average_price", Null)
                          = Num(NthNumber(t, "average_price", i))
                   /\ Get(r.pg.items[i], "confidence_level", Null)
                          = Num(NthNumber(t, "confidence_level", i))

\* three names, two prices and three confidences in a text that does not
\* parse: three clusters, the second price goes to the second name and the
\* third cluster has the price 0
C12_Witness ==
    /\ pc = "csv_done"
    /\ unified_products.raw.ty = "text"
    /\ ScrapingCase(unified_products.raw.toks)
    /\ Cardinality(MatchPositions(unified_products.raw.toks,
                                  "unified_name", "str")) = 3
    /\ Cardinality(MatchPositions(unified_products.raw.toks,
                                  "average_price", "num")) = 2
    /\ Len(RecoverGroups(unified_products.raw.toks).pg.items) = 3
    /\ Get(RecoverGroups(unified_products.raw.toks).pg.items[3],
           "average_price", Null) = Num(0)
    /\ csv_path = NormalPath
    /\ Len(RowsOf(files[NormalPath])) = 3

\* C13: recovery of the cluster list from a text never fails: for every
\* text, runs of digits and points that are no numbers included, it returns
\* a list of cluster records without raising.
C13_RecoveryNeverFails ==
    (pc = "csv_done" /\ unified_products.raw.ty = "text") =>
        /\ ~RecoverGroups(unified_products.raw.toks).raised
        /\ RecoverGroups(unified_products.raw.toks).pg.ty = "list"

\* unified names and the category the classification gives them
C14_Examples ==
    { <<<<"2", "0", "2", "4", " ", "P", "r", "e", "s", "i", "d", "e",
        "n", "t", "i", "a", "l", " ", "E", "l", "e", "c", "t", "i",
        "o", "n", " ", "W", "i", "n", "n", "e", "r">>,
        "Politics">>,
      <<<<"B", "i", "t", "c", "o", "i", "n", " ", "p", "r", "i", "c",
        "e", " ", "a", "b", "o", "v", "e", " ", "$", "1", "0", "0",
        "k">>,
        "Financial Markets">>,
      <<<<"N", "o", "b", "e", "l", " ", "P", "e", "a", "c", "e", " ",
        "P", "r", "i", "z", "e">>,
        "Awards">>,
      <<<<"R", "a", "n", "d", "o", "m", " ", "t", "o", "p", "i",
        "c">>,
        "Other">>,
      <<<<"E", "l", "e", "c", "t", "i", "o", "n", " ", "m", "a", "r",
        "k", "e", "t">>,
        "Financial Markets">>,
      <<<<"N", "F", "L", " ", "e", "l", "e", "c", "t", "i", "o",
        "n">>,
        "Politics">>,
      <<<<"N", "o", "b", "e", "l", " ", "s", "p", "o", "r", "t",
        "s">>,
        "Sports">>,
      <<<<"S", "U", "P", "E", "R", " ", "B", "O", "W", "L", " ", "C",
        "R", "Y", "P", "T", "O">>,
        "Financial Markets">>,
      <<<<"n", "o", "b", "e", "l", " ", "P", "o", "l", "i", "t", "i",
        "c", "s", " ", "F", "1">>,
        "Politics">>,
      <<<<"C", "h", "a", "m", "p", "i", "o", "n", "s", " ", "L", "e",
        "a", "g", "u", "e">>,
        "Sports">>,
      <<<<"B", "i", "t", " ", "c", "o", "i", "n">>,
        "Other">> }

\* C14: the category of a row is decided on the lower-cased unified name in
\* a fixed order, first match wins: Financial Markets for a financial
\* keyword, else Politics for election, presidential or politics, else
\* Sports for a sports keyword, else Awards for nobel, else Other.
C14_Categories ==
    (pc = "csv_done" /\ csv_path = NormalPath) =>
        \A i \in 1..Len(RowsOf(files[NormalPath])) :
            LET row == RowsOf(files[NormalPath])[i]
                low == Lower(row.unified_name)
                has(kws) == \E kw \in kws : Contains(low, kw)
            IN  /\ has(FinancialKeywords) => row.category = "Financial Markets"
                /\ (~has(FinancialKeywords) /\ has(PoliticsKeywords))
                       => row.category = "Politics"
                /\ (~has(FinancialKeywords) /\ ~has(PoliticsKeywords)
                        /\ has(SportsKeywords)) => row.category = "Sports"
                /\ (~has(FinancialKeywords) /\ ~has(PoliticsKeywords)
                        /\ ~has(SportsKeywords) /\ has({NobelKeyword}))
                       => row.category = "Awards"
                /\ (~has(FinancialKeywords) /\ ~has(PoliticsKeywords)
                        /\ ~has(SportsKeywords) /\ ~has({NobelKeyword}))
                       => row.category = "Other"
                /\ \A e \in C14_Examples :
                       row.unified_name = e[1] => row.category = e[2]

\* a name with a politics and a financial keyword is reported as Financial
\* Markets
C14_Witness ==
    /\ pc = "csv_done"
    /\ csv_path = NormalPath
    /\ Len(RowsOf(files[NormalPath])) = 1
    /\ Lower(RowsOf(files[NormalPath])[1].unified_name)
           = <<"e", "l", "e", "c", "t", "i", "o", "n", " ",
               "m", "a", "r", "k", "e", "t">>
    /\ RowsOf(files[NormalPath])[1].category = "Financial Markets"

\* the value the summary block of a report gives under a label
SummaryValue(content, label) ==
    LET l == CHOOSE l \in {content.lines[i] : i \in 1..Len(content.lines)} :
                 l.kind = "comment" /\ Len(l.cells) = 2 /\ l.cells[1] = label
    IN  l.cells[2]
HasSummaryValue(content, label) ==
    Cardinality({i \in 1..Len(content.lines) :
                    /\ content.lines[i].kind = "comment"
                    /\ Len(content.lines[i].cells) = 2
                    /\ content.lines[i].cells[1] = label}) = 1
\* v is sum / n to the two decimals the block prints
IsPrintedMean(v, sum, n) ==
    /\ 2 * (v * n - sum) <= n
    /\ 2 * (sum - v * n) <= n

\* C15: the summary block of the normal report is computed over all its
\* data rows: Total Products is their number, Average Confidence the mean
\* of their confidence_level (printed with two decimals), High Confidence
\* Products the number of rows with confidence_level strictly above 80 and
\* Multi-source Products the number of rows with source_count above 1.
C15_SummaryBlock ==
    (pc = "csv_done" /\ csv_path = NormalPath) =>
        LET content == files[NormalPath]
            rows == RowsOf(content)
        IN  /\ \A label \in {"Total Products", "Average Confidence",
                             "High Confidence Products (>80%)",
                             "Multi-source Products"} :
                   HasSummaryValue(content, label)
            /\ SummaryValue(content, "Total Products") = Len(rows)
            /\ IsPrintedMean(SummaryValue(content, "Average Confidence"),
                             SumSeq([i \in 1..Len(rows) |->
                                        rows[i].confidence_level]),
                             Len(rows))
            /\ SummaryValue(content, "High Confidence Products (>80%)")
                   = Cardinality({i \in 1..Len(rows) :
                                     rows[i].confidence_level > 8000})
            /\ SummaryValue(content, "Multi-source Products")
                   = Cardinality({i \in 1..Len(rows) : rows[i].source_count > 1})

\* three rows, one at exactly 80 and two above, two of them with two
\* members: the block counts 3 products, 2 of high confidence, 2 multi-source
C15_Witness ==
    /\ pc = "csv_done"
    /\ csv_path = NormalPath
    /\ [i \in 1..Len(RowsOf(files[NormalPath])) |->
           <<RowsOf(files[NormalPath])[i].confidence_level,
             RowsOf(files[NormalPath])[i].source_count>>]
           = <<<<8001, 2>>, <<8001, 1>>, <<8000, 2>>>>
    /\ SummaryValue(files[NormalPath], "Total Products") = 3
    /\ SummaryValue(files[NormalPath], "Average Confidence") = 8001
    /\ SummaryValue(files[NormalPath], "High Confidence Products (>80%)") = 2
    /\ SummaryValue(files[NormalPath], "Multi-source Products") = 2

\* the display name of a member: a bare string itself, the name of a
\* structured member, the string form of anything else
DisplayName(m) ==
    IF m.ty = "str" THEN m.s
    ELSE IF m.ty = "dict" /\ HasKey(m, "name") THEN Get(m, "name", Null).s
    ELSE PyStr(m)
\* the mapping records of the cluster list of arg
MappingRecordsOf(arg) == SelectSeq(ClusterList(arg), LAMBDA c : c.ty = "dict")
HasMemberList(c) == HasKey(c, "products") /\ Get(c, "products", Null).ty = "list"

\* C16: in the normal report the source_count of a cluster is the number of
\* entries of its products list, whatever their type and whatever its
\* sources list holds, and source_products is the display names of those
\* entries in member order.
C16_SourceCount ==
    (pc = "csv_done" /\ csv_path = NormalPath) =>
        \A cs \in {MappingRecordsOf(unified_products)},
           rows \in {RowsOf(files[NormalPath])} :
            LET members(c) == Get(c, "products", Null).items
            IN
            (\A c \in {cs[i] : i \in 1..Len(cs)} : HasMemberList(c)) =>
            /\ Len(rows) = Len(cs)
            /\ \E f \in Injections(Len(cs)) :
                   \A i \in 1..Len(cs) :
                       /\ rows[i].source_count = Len(members(cs[f[i]]))
                       /\ rows[i].source_products
                              = JoinSemi([j \in 1..Len(members(cs[f[i]])) |->
                                             DisplayName(members(cs[f[i]])[j])])

\* a cluster with one source and three members, a bare name twice and a
\* null, is reported with source_count 3 and the three names in order
C16_Witness ==
    /\ pc = "csv_done"
    /\ csv_path = NormalPath
    /\ Len(MappingRecordsOf(unified_products)) = 1
    /\ Get(MappingRecordsOf(unified_products)[1], "products", Null)
           = ListV(<<StrV(<<"a">>), StrV(<<"a">>), Null>>)
    /\ Len(Get(MappingRecordsOf(unified_products)[1], "sources", Null).items) = 1
    /\ RowsOf(files[NormalPath])[1].source_count = 3
    /\ RowsOf(files[NormalPath])[1].source_products
           = <<"a", ";", " ", "a", ";", " ", "N", "o", "n", "e">>

\* the record has no unified_name, an empty one or a null one
NameMissing(c) ==
    \/ ~HasKey(c, "unified_name")
    \/ Get(c, "unified_name", Null) = Null
    \/ Get(c, "unified_name", Null) = StrV(<<>>)

\* C17: every data row of the normal report has a non-empty unified_name,
\* and the row of a record whose unified_name is absent, empty or null has
\* the unified_name 'Unknown'.
C17_UnknownName ==
    (pc = "csv_done" /\ csv_path = NormalPath) =>
        \A cs \in {MappingRecordsOf(unified_products)},
           rows \in {RowsOf(files[NormalPath])} :
            /\ \A i \in 1..Len(rows) : rows[i].unified_name # <<>>
            /\ Len(rows) = Len(cs)
            /\ \E f \in Injections(Len(cs)) :
                   \A i \in 1..Len(cs) :
                       NameMissing(cs[f[i]])
                           => rows[i].unified_name
                                  = <<"U", "n", "k", "n", "o", "w", "n">>

\* C18: every data row of the report _process_csv_output returns has a
\* confidence_level between 0 and 100, whatever confidence the input record
\* or the scraped text carries.
C18_ConfidenceRange ==
    (pc = "csv_done" /\ csv_path \in Paths) =>
        \A i \in 1..Len(RowsOf(files[csv_path])) :
            /\ RowsOf(files[csv_path])[i].confidence_level >= 0
            /\ RowsOf(files[csv_path])[i].confidence_level <= 100 * 100

\* C19: records of the cluster list that are no mappings are skipped and
\* are not fatal: when the list has at least one mapping record (all of
\* them clusters as the interface describes them), the normal report has
\* exactly one data row per mapping record, wherever the other records sit.
C19_SkipNonMappings ==
    pc = "csv_done" =>
        \A cs \in {MappingRecordsOf(unified_products)},
           rows \in {RowsOf(files[NormalPath])} :
            (cs # <<>> /\ \A c \in {cs[i] : i \in 1..Len(cs)} : ValidCluster(c)) =>
            /\ csv_path = NormalPath
            /\ Len(rows) = Len(cs)
            /\ \E f \in Injections(Len(cs)) :
                   \A i \in 1..Len(cs) :
                       /\ rows[i].unified_name
                              = Get(cs[f[i]], "unified_name", Null).s
                       /\ rows[i].source_count
                              = Len(Get(cs[f[i]], "products", Null).items)
                       /\ rows[i].confidence_level
                              = RoundDiv(Get(cs[f[i]], "confidence_level",
                                             Null).n, 100)

\* a list of three records whose second is a string: two data rows
C19_Witness ==
    /\ pc = "csv_done"
    /\ Len(ClusterList(unified_products)) = 3
    /\ ClusterList(unified_products)[1].ty = "dict"
    /\ ClusterList(unified_products)[2].ty = "str"
    /\ ClusterList(unified_products)[3].ty = "dict"
    /\ csv_path = NormalPath
    /\ Len(RowsOf(files[NormalPath])) = 2

\* records the processing of which raises: a null products field, a null or
\* non-numeric confidence_level, or a null or non-numeric average_price
\* that is consulted because no member has a price
RaisingRecord(c) ==
    \/ HasKey(c, "products") /\ Get(c, "products", Null).ty = "null"
    \/ /\ HasKey(c, "confidence_level")
       /\ \/ Get(c, "confidence_level", Null).ty = "null"
          \/ /\ Get(c, "confidence_level", Null).ty = "str"
             /\ ~PyFloat(Get(c, "confidence_level", Null).s).ok
    \/ /\ HasKey(c, "average_price")
       /\ Get(c, "average_price", Null).ty \in {"null", "str"}
       /\ Get(c, "products", ListV(<<>>)).ty = "list"
       /\ CoerciblePrices(c) = <<>>

\* C20: _process_csv_output is all-or-nothing: it returns the normal report
\* with a row for every mapping record of the input, or the fallback report
\* of one row; when the processing of one record raises, no row of another
\* record is reported, and no normal report with only some of the mapping
\* records is returned.
C20_AllOrNothing ==
    pc = "csv_done" =>
        \A cs \in {MappingRecordsOf(unified_products)} :
            /\ \/ /\ csv_path = NormalPath
                  /\ cs # <<>>
                  /\ Len(RowsOf(files[NormalPath])) = Len(cs)
               \/ /\ csv_path = FallbackPath
                  /\ Len(RowsOf(files[FallbackPath])) = 1
                  /\ RowsOf(files[FallbackPath])[1].category = "Error"
                  /\ files[NormalPath] = NoFile
            /\ (\E c \in {cs[i] : i \in 1..Len(cs)} : RaisingRecord(c))
                   => csv_path = FallbackPath

\* a valid cluster followed by a cluster with a null confidence_level: the
\* fallback report, without a row for the valid cluster
C20_Witness ==
    /\ pc = "csv_done"
    /\ ClusterList(unified_products)
           = <<BaseCluster, With(BaseCluster, "confidence_level", Null)>>
    /\ csv_path = FallbackPath
    /\ Len(RowsOf(files[FallbackPath])) = 1
    /\ RowsOf(files[FallbackPath])[1].category = "Error"
    /\ files[NormalPath] = NoFile

\* a <= b on floats: no comparison with nan is true
FloatLe(a, b) == a # NaN /\ b # NaN /\ a <= b

\* C21: in every data row of every report min_price <= average_price <=
\* max_price and price_variance >= 0, and price_variance = 0 whenever
\* min_price = max_price.
C21_PriceOrder ==
    (pc = "csv_done" /\ csv_path \in Paths) =>
        \A row \in {RowsOf(files[csv_path])[i] :
                       i \in 1..Len(RowsOf(files[csv_path]))} :
            /\ FloatLe(row.min_price, row.average_price)
            /\ FloatLe(row.average_price, row.max_price)
            /\ FloatLe(0, row.price_variance)
            /\ (FloatLe(row.min_price, row.max_price)
                    /\ FloatLe(row.max_price, row.min_price))
                   => row.price_variance = 0

====
